---- MODULE Spec2Model ----
(***************************************************************************)
(* Email gateway: the idempotency-guarded send dispatcher, the signature   *)
(* composer, the idempotency store, and the stats and status routes, as a  *)
(* state machine.                                                          *)
(*                                                                         *)
(* A JavaScript handler runs without interruption between two awaits, so   *)
(* every action below is one such run: from the arrival of a request, or   *)
(* from the settling of the awaited call, up to the next await or to the   *)
(* response.                                                               *)
(*                                                                         *)
(* Optional values (undefined / null in the source) are sequences of       *)
(* length at most one: None is absent, Some(v) is present.  A string with  *)
(* content the model has to look into (an HTML body, a footer) is a        *)
(* sequence of tokens, so that the empty string is << >> and               *)
(* concatenation is \o.                                                    *)
(***************************************************************************)
EXTENDS Integers, Sequences, FiniteSets, TLC

\* ------------------------------------------------------------------ bounds

\* Number of POST /send requests in one behaviour.
MaxReq == 3

\* Number of them in the behaviours of SpecRepeat: two that can be in flight
\* together and two that repeat them.
MaxRepeat == 4

\* Number of them in the behaviours of Spec, where the clock advances, and of
\* SpecCompose and SpecBoundary, where the inputs are many.
MaxTimed == 2

\* The clock (Date.now()) runs from 0 to MaxTime, counted in days.
MaxTime == 2

\* ------------------------------------------------------------- constants

\* 24 hours, in the clock's unit (days).
TTL_MS == 1

MCPFACTORY_APP_ID == "mcpfactory"

\* config.apiKey, the key the service is configured with.
API_KEY == "test-api-key"

\* ------------------------------------------------------- optional values

None == << >>

Some(v) == << v >>

\* JavaScript truthiness of an optional string: undefined, null and the empty
\* string are falsy.
Truthy(opt) == opt # None /\ opt[1] # ""

\* JavaScript truthiness of an optional token string (empty string = << >>).
TruthyText(opt) == opt # None /\ opt[1] # << >>

\* a ?? undefined, a || b on optional strings.
OrElse(opt, dflt) == IF Truthy(opt) THEN opt[1] ELSE dflt

Contains(text, tok) == \E i \in 1..Len(text) : text[i] = tok

\* ------------------------------------------------------------- signature

UNSUBSCRIBE == "{{{pm:unsubscribe}}}"

PLACEHOLDER == "BRAND_URL"

SIGNATURE_BLOCK == "Kevin Lourd growthagency.dev"

\* Faulty variant of the house signature: without a brand URL the attribution
\* link is left with an empty target and text.
buildMcpFactorySignature_EmptyHref(type, brandUrl) ==
    LET brandDisplay == OrElse(brandUrl, "")
        brandHref    == OrElse(brandUrl, "")
        unsubscribeBlock ==
            IF type = "transactional" THEN << "<a href=", UNSUBSCRIBE, ">Unsubscribe</a>" >>
            ELSE << >>
    IN  << SIGNATURE_BLOCK, "<a href=", brandHref, ">", brandDisplay, "</a>" >>
            \o unsubscribeBlock

buildMcpFactorySignature(type, brandUrl) ==
    LET brandDisplay == OrElse(brandUrl, PLACEHOLDER)
        brandHref    == OrElse(brandUrl, PLACEHOLDER)
        unsubscribeBlock ==
            IF type = "transactional" THEN << "<a href=", UNSUBSCRIBE, ">Unsubscribe</a>" >>
            ELSE << >>
    IN  << SIGNATURE_BLOCK, "<a href=", brandHref, ">", brandDisplay, "</a>" >>
            \o unsubscribeBlock

buildDefaultFooter(type) ==
    IF type # "transactional" THEN << >>
    ELSE << "<a href=", UNSUBSCRIBE, ">Unsubscribe</a>" >>

\* Faulty variant of buildSignature: every caller of the transactional channel
\* gets the house signature.
buildSignature_EveryCallerBranded(type, appId, brandUrl) ==
    IF type = "broadcast" THEN << >>
    ELSE buildMcpFactorySignature(type, brandUrl)

buildSignature(type, appId, brandUrl) ==
    IF type = "broadcast" THEN << >>
    ELSE IF appId = MCPFACTORY_APP_ID THEN buildMcpFactorySignature(type, brandUrl)
    ELSE buildDefaultFooter(type)

appendSignature(htmlBody, type, appId, brandUrl) ==
    IF ~TruthyText(htmlBody) THEN None
    ELSE LET footer == buildSignature(type, appId, brandUrl)
         IN  IF footer = << >> THEN htmlBody ELSE Some(htmlBody[1] \o footer)

\* ----------------------------------------------------- idempotency store

\* The store is a Map: a function whose domain is the set of keys present.
\* get returns the entry found (or None) and the store it leaves behind.
StoreDelete(st, key) == [k \in (DOMAIN st) \ {key} |-> st[k]]

\* Faulty variant of get: the entry is treated as expired at its expiry instant.
StoreGet_ExpiredAtExpiry(st, key, t) ==
    IF key \notin DOMAIN st THEN [entry |-> None, store |-> st]
    ELSE IF t >= st[key].expiresAt THEN [entry |-> None, store |-> StoreDelete(st, key)]
    ELSE [entry |-> Some(st[key]), store |-> st]

\* Faulty variant of get: a hit restarts the entry's time to live.
StoreGet_SlidingExpiry(st, key, t) ==
    IF key \notin DOMAIN st THEN [entry |-> None, store |-> st]
    ELSE IF t > st[key].expiresAt THEN [entry |-> None, store |-> StoreDelete(st, key)]
    ELSE [entry |-> Some(st[key]),
          store |-> [st EXCEPT ![key].expiresAt = t + TTL_MS]]

\* Faulty variant of get: an expired entry is reported absent but stays in
\* the Map.
StoreGet_KeepsExpired(st, key, t) ==
    IF key \notin DOMAIN st THEN [entry |-> None, store |-> st]
    ELSE IF t > st[key].expiresAt THEN [entry |-> None, store |-> st]
    ELSE [entry |-> Some(st[key]), store |-> st]

StoreGet(st, key, t) ==
    IF key \notin DOMAIN st THEN [entry |-> None, store |-> st]
    ELSE IF t > st[key].expiresAt THEN [entry |-> None, store |-> StoreDelete(st, key)]
    ELSE [entry |-> Some(st[key]), store |-> st]

\* Faulty variant of set: the Map is replaced by one holding the new entry
\* alone.
StoreSet_SingleSlot(st, key, statusCode, response, t) ==
    [k \in {key} |->
        [response |-> response, statusCode |-> statusCode, expiresAt |-> t + TTL_MS]]

\* Faulty variant of set: an entry that replaces another keeps the expiry of
\* the one it replaces.
StoreSet_KeepsExpiry(st, key, statusCode, response, t) ==
    [k \in (DOMAIN st) \cup {key} |->
        IF k = key
        THEN [response |-> response, statusCode |-> statusCode,
              expiresAt |-> IF key \in DOMAIN st THEN st[key].expiresAt ELSE t + TTL_MS]
        ELSE st[k]]

StoreSet(st, key, statusCode, response, t) ==
    [k \in (DOMAIN st) \cup {key} |->
        IF k = key
        THEN [response |-> response, statusCode |-> statusCode, expiresAt |-> t + TTL_MS]
        ELSE st[k]]

\* Faulty variant of cleanup: an entry is swept at its expiry instant.
StoreCleanup_AtExpiry(st, t) ==
    [k \in {x \in DOMAIN st : ~(t >= st[x].expiresAt)} |-> st[k]]

StoreCleanup(st, t) ==
    [k \in {x \in DOMAIN st : ~(t > st[x].expiresAt)} |-> st[k]]

\* ------------------------------------------------------- authentication

\* Faulty variant of the middleware: any non-empty header passes.
serviceAuth_PresenceOnly(apiKey, configured) == Truthy(apiKey)

\* serviceAuth: TRUE when next() is called, FALSE when the request is answered
\* 401.  apiKey is the X-API-Key header, configured is config.apiKey.
serviceAuth(apiKey, configured) ==
    ~(~Truthy(apiKey) \/ apiKey[1] # configured)

\* ------------------------------------------------------- request schema

\* SendRequestSchema.safeParse, on the fields the handler branches on: the
\* discriminator must be a known channel, appId is required, and a broadcast
\* body needs a sequence of at least one step with step >= 1 and
\* daysSinceLastStep >= 0.  Parsing keeps only the members of the channel's
\* variant (htmlBody for transactional, sequence for broadcast).
StepOk(s) == s.step >= 1 /\ s.daysSinceLastStep >= 0

SendParseOk(raw) ==
    /\ raw.type \in {"transactional", "broadcast"}
    /\ raw.appId # None
    /\ raw.to # None
    /\ raw.type = "broadcast" =>
          /\ raw.sequence # None
          /\ Len(raw.sequence[1]) >= 1
          /\ \A i \in 1..Len(raw.sequence[1]) : StepOk(raw.sequence[1][i])

SendParseData(raw) ==
    IF raw.type = "transactional" THEN [raw EXCEPT !.sequence = None]
    ELSE [raw EXCEPT !.htmlBody = None]

\* ------------------------------------------------------ response shaping

EmptyResponse ==
    [success |-> None, provider |-> None, messageId |-> None, campaignId |-> None,
     error |-> None, details |-> None, deduplicated |-> None]

InvalidRequest ==
    [EmptyResponse EXCEPT !.error = Some(<< "Invalid request" >>),
                          !.details = Some("parsed.error.flatten()")]

\* res.status(401).json({ error: "Unauthorized" })
Unauthorized == [EmptyResponse EXCEPT !.error = Some(<< "Unauthorized" >>)]

UpstreamError(message) ==
    [EmptyResponse EXCEPT !.error = Some(<< "Upstream service error" >>),
                          !.details = Some(message)]

TransactionalSuccess(result) ==
    [EmptyResponse EXCEPT !.success = Some(TRUE), !.provider = Some("transactional"),
                          !.messageId = result.messageId]

BroadcastNotAdded(result) ==
    [EmptyResponse EXCEPT !.success = Some(FALSE), !.provider = Some("broadcast"),
                          !.error = Some(<< "Lead was", "not added",
                                            "to campaign (possibly duplicate)" >>),
                          !.campaignId = Some(result.campaignId)]

\* Faulty variant of the broadcast success body: a null leadId is sent as the
\* text "null" instead of being left out.
BroadcastSuccess_NullMessageId(result) ==
    [EmptyResponse EXCEPT !.success = Some(TRUE), !.provider = Some("broadcast"),
                          !.messageId = IF result.leadId = None THEN Some("null")
                                        ELSE result.leadId,
                          !.campaignId = Some(result.campaignId)]

\* result.leadId ?? undefined: a null leadId leaves messageId out of the body.
BroadcastSuccess(result) ==
    [EmptyResponse EXCEPT !.success = Some(TRUE), !.provider = Some("broadcast"),
                          !.messageId = result.leadId,
                          !.campaignId = Some(result.campaignId)]

\* res.status(cached.statusCode).json({ ...cached.response, deduplicated: true })
Deduplicated(response) == [response EXCEPT !.deduplicated = Some(TRUE)]

\* Faulty variant of the branch on result.added: added is not looked at.
BroadcastOutcome_IgnoresAdded(result) ==
    [statusCode |-> 200, response |-> BroadcastSuccess(result)]

\* Faulty variant of the branch on result.added: a lead that was not added is
\* answered as an upstream failure.
BroadcastOutcome_NotAddedIsFailure(result) ==
    IF result.added = 0
    THEN [statusCode |-> 502, response |-> UpstreamError("lead not added")]
    ELSE [statusCode |-> 200, response |-> BroadcastSuccess(result)]

\* The branch on result.added of the broadcast path: status code and body.
BroadcastOutcome(result) ==
    IF result.added = 0
    THEN [statusCode |-> 409, response |-> BroadcastNotAdded(result)]
    ELSE [statusCode |-> 200, response |-> BroadcastSuccess(result)]

\* ------------------------------------------------------------ send route

\* if (body.idempotencyKey): the request carries a key the handler acts on.
HasIdempotencyKey(body) == Truthy(body.idempotencyKey)

\* Faulty variant of the idempotency check: an entry is taken only by a send
\* on the channel of the send that stored it.
IdempotencyCheck_SameChannel(body, st, t) ==
    IF HasIdempotencyKey(body)
    THEN LET found == StoreGet(st, body.idempotencyKey[1], t)
         IN  IF found.entry # None /\ found.entry[1].response.provider # Some(body.type)
             THEN [entry |-> None, store |-> st]
             ELSE found
    ELSE [entry |-> None, store |-> st]

\* Faulty variant of the idempotency check: the lookup sits in the
\* transactional branch, so a broadcast send is never answered from the cache.
IdempotencyCheck_TransactionalOnly(body, st, t) ==
    IF HasIdempotencyKey(body) /\ body.type = "transactional"
    THEN StoreGet(st, body.idempotencyKey[1], t)
    ELSE [entry |-> None, store |-> st]

\* Faulty variant of the idempotency check: the store is never consulted.
IdempotencyCheck_NoLookup(body, st, t) == [entry |-> None, store |-> st]

\* if (body.idempotencyKey) { cached = idempotencyStore.get(key) ... }: the
\* lookup result, and the store the lookup leaves (get purges an expired entry).
IdempotencyCheck(body, st, t) ==
    IF HasIdempotencyKey(body) THEN StoreGet(st, body.idempotencyKey[1], t)
    ELSE [entry |-> None, store |-> st]

\* Faulty variant of the cache write: only a 200 is stored.
CacheWrite_SuccessOnly(body, st, statusCode, response, t) ==
    IF Truthy(body.idempotencyKey) /\ statusCode = 200
    THEN StoreSet(st, body.idempotencyKey[1], statusCode, response, t)
    ELSE st

\* Faulty variant of the cache write: the guard is missing, and a request
\* without a key is stored under the text of the absent value.
CacheWrite_Unguarded(body, st, statusCode, response, t) ==
    StoreSet(st, IF body.idempotencyKey = None THEN "undefined" ELSE body.idempotencyKey[1],
             statusCode, response, t)

\* if (body.idempotencyKey) { idempotencyStore.set(key, statusCode, response) }
CacheWrite(body, st, statusCode, response, t) ==
    IF HasIdempotencyKey(body)
    THEN StoreSet(st, body.idempotencyKey[1], statusCode, response, t)
    ELSE st

\* Faulty variant of the brand lookup guard: the channel is not looked at.
BrandLookupNeeded_AnyChannel(body) == Truthy(body.brandId)

\* if (body.type === "transactional") { if (body.brandId) { getBrand ... } }
BrandLookupNeeded(body) == body.type = "transactional" /\ Truthy(body.brandId)

\* brandUrl = brand.brandUrl ?? undefined, or undefined when getBrand threw.
BrandUrlOf(reply) == IF reply.ok THEN reply.brandUrl ELSE None

\* The body handed to postmarkClient.sendEmail.
PostmarkPayload(body, brandUrl) ==
    [provider |-> "postmark",
     htmlBody |-> appendSignature(body.htmlBody, body.type, body.appId[1], brandUrl),
     sequence |-> None, email |-> None]

\* Faulty variant of the broadcast dispatch: a single email with the signed
\* body is sent in place of the sequence.
InstantlyPayload_SingleEmail(body) ==
    [provider |-> "instantly", htmlBody |-> None, sequence |-> None,
     email |-> Some(body.sequence[1][1].bodyHtml \o buildMcpFactorySignature(body.type, None))]

\* The body handed to instantlyClient.atomicSend.
InstantlyPayload(body) ==
    [provider |-> "instantly", htmlBody |-> None, sequence |-> body.sequence,
     email |-> None]

NoPayload == [provider |-> "none", htmlBody |-> None, sequence |-> None, email |-> None]

\* ----------------------------------------------------------- stats route

\* StatsRequestSchema.safeParse: type, when present, is a channel; groupBy,
\* when present, is one of the four dimensions.  Unknown members are stripped.
GroupByDimensions == {"brandId", "campaignId", "workflowName", "leadEmail"}

StatsParseOk(raw) ==
    /\ raw.type = None \/ raw.type[1] \in {"transactional", "broadcast"}
    /\ raw.groupBy = None \/ raw.groupBy[1] \in GroupByDimensions

StatsParseData(raw) == [type |-> raw.type, groupBy |-> raw.groupBy]

\* raw.x ?? 0
OrZero(opt) == IF opt = None THEN 0 ELSE opt[1]

\* Faulty variant of the normalizer: the reply-subtype counters are copied as
\* the core counters are, without a default.
normalizePayload_NoDefaults(raw, recipients) ==
    [emailsSent           |-> raw.emailsSent,
     emailsDelivered      |-> raw.emailsDelivered,
     emailsOpened         |-> raw.emailsOpened,
     emailsClicked        |-> raw.emailsClicked,
     emailsReplied        |-> raw.emailsReplied,
     emailsBounced        |-> raw.emailsBounced,
     repliesWillingToMeet |-> raw.repliesWillingToMeet,
     repliesInterested    |-> raw.repliesInterested,
     repliesNotInterested |-> raw.repliesNotInterested,
     repliesOutOfOffice   |-> raw.repliesOutOfOffice,
     repliesUnsubscribe   |-> raw.repliesUnsubscribe,
     recipients           |-> IF recipients = None THEN raw.emailsSent ELSE recipients,
     stepStats            |-> None]

\* Faulty variant of the normalizer: recipients || raw.emailsSent, which
\* takes an explicit 0 for a missing count.
normalizePayload_FalsyRecipients(raw, recipients) ==
    [emailsSent           |-> raw.emailsSent,
     emailsDelivered      |-> raw.emailsDelivered,
     emailsOpened         |-> raw.emailsOpened,
     emailsClicked        |-> raw.emailsClicked,
     emailsReplied        |-> raw.emailsReplied,
     emailsBounced        |-> raw.emailsBounced,
     repliesWillingToMeet |-> Some(OrZero(raw.repliesWillingToMeet)),
     repliesInterested    |-> Some(OrZero(raw.repliesInterested)),
     repliesNotInterested |-> Some(OrZero(raw.repliesNotInterested)),
     repliesOutOfOffice   |-> Some(OrZero(raw.repliesOutOfOffice)),
     repliesUnsubscribe   |-> Some(OrZero(raw.repliesUnsubscribe)),
     recipients           |-> IF recipients = None \/ recipients = Some(0)
                              THEN raw.emailsSent ELSE recipients,
     stepStats            |-> None]

\* A counter is an optional value: None where the source has undefined or
\* null, so that what the normalizer copies and what it defaults can be told
\* apart.
normalizePayload(raw, recipients) ==
    [emailsSent           |-> raw.emailsSent,
     emailsDelivered      |-> raw.emailsDelivered,
     emailsOpened         |-> raw.emailsOpened,
     emailsClicked        |-> raw.emailsClicked,
     emailsReplied        |-> raw.emailsReplied,
     emailsBounced        |-> raw.emailsBounced,
     repliesWillingToMeet |-> Some(OrZero(raw.repliesWillingToMeet)),
     repliesInterested    |-> Some(OrZero(raw.repliesInterested)),
     repliesNotInterested |-> Some(OrZero(raw.repliesNotInterested)),
     repliesOutOfOffice   |-> Some(OrZero(raw.repliesOutOfOffice)),
     repliesUnsubscribe   |-> Some(OrZero(raw.repliesUnsubscribe)),
     recipients           |-> IF recipients = None THEN raw.emailsSent ELSE recipients,
     stepStats            |-> None]

\* raw.stepStats ? { ...base, stepStats } : base
normalizeBroadcastFlat(raw) ==
    LET base == normalizePayload(raw.stats[1], raw.recipients)
    IN  IF raw.stepStats # None THEN [base EXCEPT !.stepStats = raw.stepStats] ELSE base

\* "groups" in result
isGrouped(result) == result.groups # None

normalizeFlatResult(raw) == normalizePayload(raw.stats[1], raw.recipients)

\* Reading flat.stats of a result that has none throws a TypeError.
FlatThrows(raw) == raw.stats = None

EmptyStatsResponse ==
    [transactional |-> None, broadcast |-> None, groups |-> None, error |-> None,
     details |-> None]

StatsInvalidRequest ==
    [EmptyStatsResponse EXCEPT !.error = Some("Invalid request"),
                               !.details = Some("parsed.error.flatten()")]

StatsUnauthorized == [EmptyStatsResponse EXCEPT !.error = Some("Unauthorized")]

\* The catch of the route: res.status(502).json({ error, details: message }).
FailedToFetchStats(message) ==
    [statusCode |-> 502,
     response |-> [EmptyStatsResponse EXCEPT !.error = Some("Failed to fetch stats"),
                                             !.details = Some(message)]]

StatsOk(response) == [statusCode |-> 200, response |-> response]

\* The providers handleFlat and handleGrouped call for a channel filter.
StatsProviders(type) ==
    IF type = Some("transactional") THEN {"postmark"}
    ELSE IF type = Some("broadcast") THEN {"instantly"}
    ELSE {"postmark", "instantly"}

\* Faulty variant of handleFlat: a failure of any provider called fails the
\* whole request.
handleFlat_AllOrNothing(type, postmarkResult, instantlyResult) ==
    IF type # Some("broadcast") /\ ~postmarkResult.ok
    THEN FailedToFetchStats(postmarkResult.message)
    ELSE IF type # Some("transactional") /\ ~instantlyResult.ok
    THEN FailedToFetchStats(instantlyResult.message)
    ELSE StatsOk([EmptyStatsResponse EXCEPT
            !.transactional = IF type # Some("broadcast")
                              THEN Some(normalizeFlatResult(postmarkResult)) ELSE None,
            !.broadcast = IF type # Some("transactional")
                          THEN Some(normalizeBroadcastFlat(instantlyResult)) ELSE None])

handleFlat(type, postmarkResult, instantlyResult) ==
    IF type = Some("transactional")
    THEN IF ~postmarkResult.ok THEN FailedToFetchStats(postmarkResult.message)
         ELSE IF FlatThrows(postmarkResult) THEN FailedToFetchStats("TypeError")
         ELSE StatsOk([EmptyStatsResponse EXCEPT
                          !.transactional = Some(normalizeFlatResult(postmarkResult))])
    ELSE IF type = Some("broadcast")
    THEN IF ~instantlyResult.ok THEN FailedToFetchStats(instantlyResult.message)
         ELSE IF FlatThrows(instantlyResult) THEN FailedToFetchStats("TypeError")
         ELSE StatsOk([EmptyStatsResponse EXCEPT
                          !.broadcast = Some(normalizeBroadcastFlat(instantlyResult))])
    ELSE IF (postmarkResult.ok /\ FlatThrows(postmarkResult))
                \/ (instantlyResult.ok /\ FlatThrows(instantlyResult))
    THEN FailedToFetchStats("TypeError")
    ELSE StatsOk([EmptyStatsResponse EXCEPT
            !.transactional =
                IF postmarkResult.ok THEN Some(normalizeFlatResult(postmarkResult))
                ELSE Some([error |-> postmarkResult.message]),
            !.broadcast =
                IF instantlyResult.ok THEN Some(normalizeBroadcastFlat(instantlyResult))
                ELSE Some([error |-> instantlyResult.message])])

\* raw.groups.map(g => ({ key, <channel>: normalizePayload(g.stats, g.recipients) }))
GroupsOf(raw, channel) ==
    [i \in 1..Len(raw.groups[1]) |->
        LET g == raw.groups[1][i]
            n == normalizePayload(g.stats, g.recipients)
        IN  [key |-> g.key,
             transactional |-> IF channel = "transactional" THEN Some(n) ELSE None,
             broadcast     |-> IF channel = "broadcast" THEN Some(n) ELSE None]]

\* The Map of handleGrouped as the sequence of its entries in insertion order.
MapHas(entries, key) == \E i \in 1..Len(entries) : entries[i].key = key

MapGet(entries, key) ==
    entries[CHOOSE i \in 1..Len(entries) : entries[i].key = key]

\* Faulty variant of merged.set: an entry is added even when the key is there.
MapSet_Appends(entries, entry) == Append(entries, entry)

MapSet(entries, entry) ==
    IF MapHas(entries, entry.key)
    THEN [i \in 1..Len(entries) |->
             IF entries[i].key = entry.key THEN entry ELSE entries[i]]
    ELSE Append(entries, entry)

\* for (const g of postmarkResult.value.groups) merged.set(g.key, { transactional })
RECURSIVE MergeTransactional(_, _)
MergeTransactional(merged, groups) ==
    IF groups = << >> THEN merged
    ELSE MergeTransactional(MapSet(merged, Head(groups)), Tail(groups))

\* for (const g of instantlyResult.value.groups) { existing = merged.get(g.key) ?? {};
\*   existing.broadcast = ...; merged.set(g.key, existing) }
RECURSIVE MergeBroadcast(_, _)
MergeBroadcast(merged, groups) ==
    IF groups = << >> THEN merged
    ELSE LET g == Head(groups)
             existing == IF MapHas(merged, g.key) THEN MapGet(merged, g.key)
                         ELSE [key |-> g.key, transactional |-> None, broadcast |-> None]
         IN  MergeBroadcast(MapSet(merged, [existing EXCEPT !.broadcast = g.broadcast]),
                            Tail(groups))

handleGrouped(type, postmarkResult, instantlyResult) ==
    IF type = Some("transactional")
    THEN IF ~postmarkResult.ok THEN FailedToFetchStats(postmarkResult.message)
         ELSE IF ~isGrouped(postmarkResult)
         THEN StatsOk([EmptyStatsResponse EXCEPT !.groups = Some(<< >>)])
         ELSE StatsOk([EmptyStatsResponse EXCEPT
                          !.groups = Some(GroupsOf(postmarkResult, "transactional"))])
    ELSE IF type = Some("broadcast")
    THEN IF ~instantlyResult.ok THEN FailedToFetchStats(instantlyResult.message)
         ELSE IF ~isGrouped(instantlyResult)
         THEN StatsOk([EmptyStatsResponse EXCEPT !.groups = Some(<< >>)])
         ELSE StatsOk([EmptyStatsResponse EXCEPT
                          !.groups = Some(GroupsOf(instantlyResult, "broadcast"))])
    ELSE LET fromPostmark ==
                 IF postmarkResult.ok /\ isGrouped(postmarkResult)
                 THEN MergeTransactional(<< >>, GroupsOf(postmarkResult, "transactional"))
                 ELSE << >>
             merged ==
                 IF instantlyResult.ok /\ isGrouped(instantlyResult)
                 THEN MergeBroadcast(fromPostmark, GroupsOf(instantlyResult, "broadcast"))
                 ELSE fromPostmark
         IN  StatsOk([EmptyStatsResponse EXCEPT !.groups = Some(merged)])

\* Faulty variant of the route's branch: groupBy is not looked at.
StatsOutcome_FlatOnly(data, postmarkResult, instantlyResult) ==
    handleFlat(data.type, postmarkResult, instantlyResult)

\* if (filters.groupBy) handleGrouped(...) else handleFlat(...)
StatsOutcome(data, postmarkResult, instantlyResult) ==
    IF Truthy(data.groupBy) THEN handleGrouped(data.type, postmarkResult, instantlyResult)
    ELSE handleFlat(data.type, postmarkResult, instantlyResult)

\* ---------------------------------------------------------- status route

\* z.string().email(), on the addresses the model uses.
Emails == {"a@example.com", "b@example.com"}

IsEmail(text) == text \in Emails

\* StatusRequestSchema.safeParse: campaignId is required, items has at least
\* one member and every member an email address.
StatusParseOk(raw) ==
    /\ raw.campaignId # None
    /\ raw.items # None
    /\ Len(raw.items[1]) >= 1
    /\ \A i \in 1..Len(raw.items[1]) : IsEmail(raw.items[1][i].email)

StatusParseData(raw) == [campaignId |-> raw.campaignId, items |-> raw.items]

EmptyStatusResponse == [results |-> None, error |-> None, details |-> None]

StatusInvalidRequest ==
    [EmptyStatusResponse EXCEPT !.error = Some("Invalid request"),
                                !.details = Some("parsed.error.flatten()")]

StatusUnauthorized == [EmptyStatusResponse EXCEPT !.error = Some("Unauthorized")]

\* for (const r of value.results) map.set(r.email, r): the last result of an
\* address is the one the Map keeps.
StatusMap(result) ==
    IF ~result.ok THEN << >>
    ELSE LET results == result.results[1]
             last(e) == CHOOSE i \in 1..Len(results) :
                            /\ results[i].email = e
                            /\ \A j \in 1..Len(results) : results[j].email = e => j <= i
         IN  [e \in {results[i].email : i \in 1..Len(results)} |-> results[last(e)]]

\* Faulty variant of the sub-object of an item: an address the Map lacks gets
\* a sub-object with empty scopes.
StatusOf_ZeroFilled(map, email) ==
    IF email \in DOMAIN map
    THEN Some([campaign |-> map[email].campaign, global |-> map[email].global])
    ELSE Some([campaign |-> None, global |-> None])

\* entry.<channel> = { campaign, global } when the Map has the item's address.
StatusOf(map, email) ==
    IF email \in DOMAIN map
    THEN Some([campaign |-> map[email].campaign, global |-> map[email].global])
    ELSE None

\* Iterating the results of a fulfilled reply that has none throws a TypeError.
StatusThrows(result) == result.ok /\ result.results = None

\* Faulty variant of the test for total failure: one rejection is enough.
BothRejected_Either(broadcastResult, transactionalResult) ==
    ~broadcastResult.ok \/ ~transactionalResult.ok

\* broadcastResult.status === "rejected" && transactionalResult.status === "rejected"
BothRejected(broadcastResult, transactionalResult) ==
    ~broadcastResult.ok /\ ~transactionalResult.ok

\* The route after Promise.allSettled: status code and body.
StatusOutcome(data, broadcastResult, transactionalResult) ==
    IF StatusThrows(broadcastResult) \/ StatusThrows(transactionalResult)
    THEN [statusCode |-> 502,
          response |-> [EmptyStatusResponse EXCEPT
                           !.error = Some("Upstream service error"),
                           !.details = Some("TypeError")]]
    ELSE IF BothRejected(broadcastResult, transactionalResult)
    THEN [statusCode |-> 502,
          response |-> [EmptyStatusResponse EXCEPT
                           !.error = Some("Both upstream services failed")]]
    ELSE LET broadcastMap     == StatusMap(broadcastResult)
             transactionalMap == StatusMap(transactionalResult)
             items            == data.items[1]
         IN  [statusCode |-> 200,
              response |-> [EmptyStatusResponse EXCEPT !.results =
                  Some([i \in 1..Len(items) |->
                           [leadId        |-> items[i].leadId,
                            email         |-> items[i].email,
                            broadcast     |-> StatusOf(broadcastMap, items[i].email),
                            transactional |-> StatusOf(transactionalMap, items[i].email)]])]]

\* ------------------------------------------------------------------ state

VARIABLES
    now,      \* Date.now()
    store,    \* the idempotency store's Map: key -> StoredEntry
    req,      \* the POST /send requests: position in the handler and its locals
    stats,    \* a POST /stats request
    status,   \* a POST /status request
    compose,  \* a call of the signature composer and what it returned
    unswept   \* the Map as the same get and set calls leave it without cleanup

vars == << now, store, req, stats, status, compose, unswept >>

\* The requests of the two read-only routes.
queryVars == << stats, status >>

ReqIds == 1..MaxRepeat

\* A request that has not arrived yet.
IdleBody ==
    [type |-> "none", appId |-> None, brandId |-> None, idempotencyKey |-> None,
     htmlBody |-> None, sequence |-> None, to |-> None]

IdleReq ==
    [pc         |-> "idle",        \* idle, brand, dispatch, done
     apiKey     |-> None,          \* the X-API-Key header of the request
     body       |-> IdleBody,      \* req.body, replaced by parsed.data once parsed
     at         |-> 0,             \* the clock when the handler started
     before     |-> {},            \* the requests already answered when it started
     lookedUp   |-> FALSE,         \* idempotencyStore.get was called
     expired    |-> FALSE,         \* ... and found an entry past its expiry
     brandAsked |-> FALSE,         \* brandClient.getBrand was called
     brandFailed |-> FALSE,        \* ... and threw
     payload    |-> NoPayload,     \* what was handed to the provider client
     result     |-> None,          \* what the provider call settled with
     wrote      |-> FALSE,         \* idempotencyStore.set was called
     steps      |-> << >>,         \* what the handler has done, in the order it did it
     doneAt     |-> 0,             \* the clock when the response was sent
     statusCode |-> 0,
     response   |-> EmptyResponse]

\* A stats or status request that has not arrived yet.
IdleStats ==
    [pc |-> "idle", apiKey |-> None,
     body |-> [type |-> None, groupBy |-> None, idempotencyKey |-> None],
     calls |-> {},                 \* the providers whose getStats was called
     postmarkResult |-> None,      \* what the calls settled with
     instantlyResult |-> None,
     settled |-> << >>,            \* the providers in the order their calls settled
     responses |-> 0,              \* how many times res.json was called
     statusCode |-> 0, response |-> EmptyStatsResponse]

IdleStatus ==
    [pc |-> "idle", apiKey |-> None,
     body |-> [campaignId |-> None, items |-> None, idempotencyKey |-> None],
     calls |-> {},                 \* the providers whose getStatus was called
     broadcastResult |-> None,     \* what the calls settled with
     transactionalResult |-> None,
     settled |-> << >>,            \* the providers in the order their calls settled
     responses |-> 0,              \* how many times res.json was called
     statusCode |-> 0, response |-> EmptyStatusResponse]

\* The get and the set of a handler step, applied to the Map that is never
\* swept.
UnsweptAfterGet(next) ==
    IF next.lookedUp THEN StoreGet(unswept, next.body.idempotencyKey[1], now).store
    ELSE unswept

UnsweptAfterSet(next) ==
    IF next.wrote
    THEN StoreSet(unswept, next.body.idempotencyKey[1], next.statusCode, next.response, now)
    ELSE unswept

\* No call of the signature composer yet.
IdleCompose ==
    [call |-> "none", htmlBody |-> None, type |-> "none", appId |-> "", brandUrl |-> None,
     footer |-> None, result |-> None]

Dispatched(r) == req[r].payload.provider # "none"

\* The provider call of r returned: the provider answered the send.
Answered(r) == req[r].result # None /\ req[r].result[1].ok

Done(r) == req[r].pc = "done"

\* ----------------------------------------------------------------- inputs

HTML == << "<p>Welcome</p>" >>

Step(n, html, days) == [step |-> n, bodyHtml |-> html, daysSinceLastStep |-> days]

SEQUENCE_1 == << Step(1, << "<p>Hi</p>" >>, 0) >>

SEQUENCE_2 == << Step(1, << "<p>Hi</p>" >>, 0), Step(2, << "<p>Following up</p>" >>, 3) >>

Transactional(appId, brandId, key, html) ==
    [type |-> "transactional", appId |-> Some(appId), brandId |-> brandId,
     idempotencyKey |-> key, htmlBody |-> html, sequence |-> None,
     to |-> Some("a@example.com")]

Broadcast(appId, brandId, key, sequence) ==
    [type |-> "broadcast", appId |-> Some(appId), brandId |-> brandId,
     idempotencyKey |-> key, htmlBody |-> None, sequence |-> sequence,
     to |-> Some("a@example.com")]

\* Request bodies of the specification Spec: a transactional send whose
\* idempotencyKey is the empty string, a transactional send with a key and a
\* brandId, and a broadcast send with the same key.
SendBodies ==
    {Transactional("app_1", None, Some(""), Some(HTML)),
     Transactional("app_1", Some("brand_1"), Some("k1"), Some(HTML)),
     Broadcast("app_1", None, Some("k1"), Some(SEQUENCE_1))}

\* Request bodies of the specification SpecRace: one key on both channels.
RaceBodies ==
    {Transactional("app_1", Some("brand_1"), Some("k1"), Some(HTML)),
     Broadcast("app_1", None, Some("k1"), Some(SEQUENCE_1))}

\* Request bodies of the specification SpecKeys: two sends that differ in
\* their key, one on each channel.
KeyBodies ==
    {Transactional("app_1", None, Some("k2"), Some(HTML)),
     Broadcast("app_1", None, Some("k1"), Some(SEQUENCE_1))}

\* Request bodies of the specification SpecCompose: the house caller and
\* another caller on both channels, with a brandId, with the empty string as
\* brandId and without one, with and without a key, and a transactional send
\* that carries no htmlBody (a text-only message).
ComposeBodies ==
    {Transactional(MCPFACTORY_APP_ID, Some("brand_1"), Some("k1"), Some(HTML)),
     Transactional("app_1", Some("brand_1"), Some("k1"), Some(HTML)),
     Transactional("app_1", Some(""), Some("k1"), Some(HTML)),
     Transactional(MCPFACTORY_APP_ID, None, None, Some(HTML)),
     Transactional(MCPFACTORY_APP_ID, Some("brand_1"), None, None),
     Broadcast(MCPFACTORY_APP_ID, Some("brand_1"), Some("k1"), Some(SEQUENCE_2)),
     Broadcast("app_1", None, Some("k1"), Some(SEQUENCE_2)),
     Broadcast("app_1", Some("brand_1"), None, Some(SEQUENCE_1))}

\* Bodies of POST /send that fail the schema, each with an idempotency key: an
\* unknown channel, a broadcast with an empty sequence, a transactional send
\* without appId.
InvalidBodies ==
    {[Broadcast("app_1", None, Some("k1"), Some(SEQUENCE_1)) EXCEPT !.type = "sms"],
     Broadcast("app_1", None, Some("k1"), Some(<< >>)),
     [Transactional("app_1", Some("brand_1"), Some("k1"), Some(HTML)) EXCEPT !.appId = None]}

\* Request bodies of the specification SpecShared: one key on a transactional
\* send, on a transactional send with another body to another recipient, and
\* on a broadcast send to that other recipient.
SharedKeyBodies ==
    {Transactional("app_1", Some("brand_1"), Some("k1"), Some(HTML)),
     [Transactional("app_1", None, Some("k1"), Some(<< "<p>Invoice</p>" >>))
          EXCEPT !.to = Some("b@example.com")],
     [Broadcast("app_1", None, Some("k1"), Some(SEQUENCE_1))
          EXCEPT !.to = Some("b@example.com")]}

\* Request bodies of the specification SpecCache: sends on both channels and
\* bodies that fail the schema, all bearing one key.
CacheBodies ==
    {Transactional("app_1", Some("brand_1"), Some("k1"), Some(HTML)),
     Broadcast("app_1", None, Some("k1"), Some(SEQUENCE_1)),
     [Broadcast("app_1", None, Some("k1"), Some(SEQUENCE_1)) EXCEPT !.type = "sms"],
     Broadcast("app_1", None, Some("k1"), Some(<< >>))}

\* Request bodies of the specification SpecBoundary: a broadcast send that
\* passes the schema, and the bodies that fail it, all with one key.
BoundaryBodies == {Broadcast("app_1", None, Some("k1"), Some(SEQUENCE_1))} \cup InvalidBodies

StatsBody(type, groupBy) ==
    [type |-> type, groupBy |-> groupBy, idempotencyKey |-> Some("k1")]

\* Bodies of POST /stats: every channel filter, flat and grouped, and two that
\* fail the schema (an unknown channel, an unknown dimension).
StatsBodies ==
    {StatsBody(t, g) : t \in {None, Some("transactional"), Some("broadcast")},
                       g \in {None, Some("brandId")}}
        \cup {StatsBody(Some("sms"), None), StatsBody(None, Some("recipient"))}

Item(leadId, email) == [leadId |-> leadId, email |-> email]

StatusBody(campaignId, items) ==
    [campaignId |-> campaignId, items |-> items, idempotencyKey |-> Some("k1")]

\* Bodies of POST /status: two items, and three that fail the schema (no
\* campaignId, no item, an item whose email is not an address).
StatusBodies ==
    {StatusBody(Some("campaign_1"),
                Some(<< Item(Some("lead_1"), "a@example.com"), Item(None, "b@example.com") >>)),
     StatusBody(None, Some(<< Item(None, "a@example.com") >>)),
     StatusBody(Some("campaign_1"), Some(<< >>)),
     StatusBody(Some("campaign_1"), Some(<< Item(None, "not-an-email") >>))}

\* X-API-Key headers: none, the empty string, another key, the configured key.
Headers == {None, Some(""), Some("wrong-key"), Some(API_KEY)}

\* Request bodies of the specification SpecAuth, each with the same key.
AuthBodies == {Broadcast("app_1", None, Some("k1"), Some(SEQUENCE_1))}

AuthStatsBodies == {StatsBody(None, None), StatsBody(Some("broadcast"), Some("brandId"))}

AuthStatusBodies ==
    {StatusBody(Some("campaign_1"), Some(<< Item(Some("lead_1"), "a@example.com") >>))}

\* The arguments of the signature composer: both channels; the house caller,
\* another caller, the empty caller id and the house caller's id in another
\* case; no brand URL, the empty string and two URLs; no body, the empty
\* string and a body.
EmailTypes == {"transactional", "broadcast"}

AppIds == {MCPFACTORY_APP_ID, "app_1", "", "McpFactory"}

BrandUrls == {None, Some(""), Some("https://acme.com"), Some("https://mybrand.com")}

HtmlBodies == {None, Some(<< >>), Some(HTML)}

\* What the awaited calls can settle with.  ok = FALSE is a rejected fetch or
\* a response that is not ok: the client throws.
BrandReplies ==
    {[ok |-> FALSE, brandUrl |-> None]}
        \cup {[ok |-> TRUE, brandUrl |-> u] : u \in {None, Some(""), Some("https://acme.com")}}

PostmarkReply(ok, messageId) ==
    [ok |-> ok, messageId |-> messageId, campaignId |-> "none", leadId |-> None, added |-> 0]

InstantlyReply(ok, campaignId, leadId, added) ==
    [ok |-> ok, messageId |-> None, campaignId |-> campaignId, leadId |-> leadId,
     added |-> added]

PostmarkReplies ==
    {PostmarkReply(FALSE, None), PostmarkReply(TRUE, Some("pm_1")),
     PostmarkReply(TRUE, Some("pm_2"))}

InstantlyReplies ==
    {InstantlyReply(FALSE, "none", None, 0),
     InstantlyReply(TRUE, "inst_camp", None, 0),
     InstantlyReply(TRUE, "inst_camp", Some("lead_1"), 1),
     InstantlyReply(TRUE, "inst_camp", Some("lead_2"), 2)}

\* The replies of SpecCompose: also a send answered without a messageId, and a
\* lead added with a null leadId.
AllPostmarkReplies == PostmarkReplies \cup {PostmarkReply(TRUE, None)}

AllInstantlyReplies == InstantlyReplies \cup {InstantlyReply(TRUE, "inst_camp", None, 1)}

\* What getStats can settle with: a failure, flat stats, grouped stats.
Payload(sent, delivered, opened, replies) ==
    [emailsSent |-> Some(sent), emailsDelivered |-> Some(delivered),
     emailsOpened |-> Some(opened), emailsClicked |-> Some(0),
     emailsReplied |-> Some(OrZero(replies)), emailsBounced |-> Some(sent - delivered),
     repliesAutoReply |-> replies,
     repliesWillingToMeet |-> replies, repliesInterested |-> replies,
     repliesNotInterested |-> None, repliesOutOfOffice |-> None,
     repliesUnsubscribe |-> replies]

StatsFailure(message) ==
    [ok |-> FALSE, message |-> message, stats |-> None, recipients |-> None,
     stepStats |-> None, groups |-> None]

FlatStats(payload, recipients, stepStats) ==
    [ok |-> TRUE, message |-> "", stats |-> Some(payload), recipients |-> recipients,
     stepStats |-> stepStats, groups |-> None]

GroupedStats(groups) ==
    [ok |-> TRUE, message |-> "", stats |-> None, recipients |-> None,
     stepStats |-> None, groups |-> Some(groups)]

Group(key, payload, recipients) ==
    [key |-> key, stats |-> payload, recipients |-> recipients]

StepStats(step, sent) ==
    [step |-> step, emailsSent |-> sent, emailsOpened |-> 0, emailsReplied |-> 0,
     emailsBounced |-> 0]

PostmarkStatsReplies ==
    {StatsFailure("postmark-service POST /stats"),
     FlatStats(Payload(4, 3, 2, None), None, None),
     GroupedStats(<< Group("brand_1", Payload(4, 3, 2, None), Some(3)),
                     Group("brand_2", Payload(2, 2, 1, Some(1)), None) >>)}

InstantlyStatsReplies ==
    {StatsFailure("instantly-service POST /stats"),
     FlatStats(Payload(2, 2, 1, Some(1)), Some(2), Some(<< StepStats(1, 2) >>)),
     GroupedStats(<< Group("brand_3", Payload(1, 1, 0, None), None),
                     Group("brand_2", Payload(3, 2, 1, Some(1)), Some(2)) >>)}

\* The counters of a raw payload, and those the normalized stats keep.
CoreCounters ==
    {"emailsSent", "emailsDelivered", "emailsOpened", "emailsClicked", "emailsReplied",
     "emailsBounced"}

ReplyCounters ==
    {"repliesWillingToMeet", "repliesInterested", "repliesNotInterested",
     "repliesOutOfOffice", "repliesUnsubscribe"}

RawCounters == CoreCounters \cup ReplyCounters \cup {"repliesAutoReply"}

\* A raw payload in which the counters of `missing` are absent; each counter
\* present has a value of its own.
SparsePayload(missing) ==
    LET counter(name, value) == IF name \in missing THEN None ELSE Some(value)
    IN  [emailsSent           |-> counter("emailsSent", 12),
         emailsDelivered      |-> counter("emailsDelivered", 11),
         emailsOpened         |-> counter("emailsOpened", 10),
         emailsClicked        |-> counter("emailsClicked", 9),
         emailsReplied        |-> counter("emailsReplied", 8),
         emailsBounced        |-> counter("emailsBounced", 1),
         repliesAutoReply     |-> counter("repliesAutoReply", 2),
         repliesWillingToMeet |-> counter("repliesWillingToMeet", 3),
         repliesInterested    |-> counter("repliesInterested", 4),
         repliesNotInterested |-> counter("repliesNotInterested", 5),
         repliesOutOfOffice   |-> counter("repliesOutOfOffice", 6),
         repliesUnsubscribe   |-> counter("repliesUnsubscribe", 7)]

\* Flat stats with every subset of the counters missing, and with no
\* recipient count, an explicit 0 and a positive one.
SparseStatsReplies ==
    {FlatStats(SparsePayload(missing), recipients, None) :
        missing \in SUBSET RawCounters, recipients \in {None, Some(0), Some(20)}}

\* Flat requests for one channel.
NormalizeBodies ==
    {StatsBody(Some("transactional"), None), StatsBody(Some("broadcast"), None)}

\* What getStatus can settle with: a failure, or results.
Scope(contacted, delivered, lastDeliveredAt) ==
    [lead  |-> [contacted |-> contacted, delivered |-> delivered, replied |-> FALSE,
                lastDeliveredAt |-> lastDeliveredAt],
     email |-> [contacted |-> contacted, delivered |-> delivered, bounced |-> FALSE,
                unsubscribed |-> FALSE, lastDeliveredAt |-> lastDeliveredAt]]

StatusResult(email, campaign, global) ==
    [email |-> email, campaign |-> campaign, global |-> global]

StatusFailure == [ok |-> FALSE, results |-> None]

StatusResults(results) == [ok |-> TRUE, results |-> results]

InstantlyStatusReplies ==
    {StatusFailure,
     StatusResults(Some(<< >>)),
     StatusResults(Some(<<
        StatusResult("a@example.com", Scope(FALSE, FALSE, None), Scope(TRUE, FALSE, None)),
        StatusResult("c@example.com", Scope(TRUE, TRUE, Some("2026-01-01")),
                                      Scope(TRUE, TRUE, Some("2026-01-01"))),
        StatusResult("a@example.com", Scope(TRUE, TRUE, Some("2026-01-02")),
                                      Scope(TRUE, TRUE, Some("2026-01-02"))) >>))}

PostmarkStatusReplies ==
    {StatusFailure,
     StatusResults(Some(<< >>)),
     StatusResults(Some(<<
        StatusResult("b@example.com", Scope(TRUE, FALSE, None),
                                      Scope(TRUE, TRUE, Some("2026-01-03"))) >>))}

\* ---------------------------------------------------------------- actions

Init ==
    /\ now = 0
    /\ store = << >>
    /\ req = [r \in ReqIds |-> IdleReq]
    /\ stats = IdleStats
    /\ status = IdleStatus
    /\ compose = IdleCompose
    /\ unswept = << >>

\* Faulty variant of the start of the handler: the idempotency check precedes
\* validation.
SendStart_ChecksCacheFirst(r, raw) ==
    LET started == [req[r] EXCEPT !.body = raw, !.at = now, !.doneAt = now,
                                  !.before = {q \in ReqIds : Done(q)},
                                  !.lookedUp = HasIdempotencyKey(raw)]
        cached  == IdempotencyCheck(raw, store, now)
    IN
    IF cached.entry # None
    THEN [req |-> [started EXCEPT !.pc = "done",
                                  !.statusCode = cached.entry[1].statusCode,
                                  !.response = Deduplicated(cached.entry[1].response)],
          store |-> cached.store]
    ELSE IF ~SendParseOk(raw)
    THEN [req |-> [started EXCEPT !.pc = "done", !.statusCode = 400,
                                  !.response = InvalidRequest],
          store |-> cached.store]
    ELSE IF BrandLookupNeeded(SendParseData(raw))
    THEN [req |-> [started EXCEPT !.body = SendParseData(raw), !.pc = "brand",
                                  !.brandAsked = TRUE],
          store |-> cached.store]
    ELSE [req |-> [started EXCEPT !.body = SendParseData(raw), !.pc = "dispatch",
                                  !.payload =
                                      IF raw.type = "transactional"
                                      THEN PostmarkPayload(SendParseData(raw), None)
                                      ELSE InstantlyPayload(SendParseData(raw))],
          store |-> cached.store]

\* The handler up to its first await, or to its response: validation, the
\* idempotency check, and on a miss the call of getBrand (transactional with a
\* brandId) or of the provider client.
SendStart(r, raw) ==
    LET started == [req[r] EXCEPT !.body = raw, !.at = now, !.doneAt = now,
                                  !.before = {q \in ReqIds : Done(q)}]
    IN
    IF ~SendParseOk(raw)
    THEN [req |-> [started EXCEPT !.pc = "done", !.statusCode = 400,
                                  !.response = InvalidRequest,
                                  !.steps = << "respond" >>],
          store |-> store]
    ELSE
    LET body   == SendParseData(raw)
        cached == IdempotencyCheck(body, store, now)
        parsed == [started EXCEPT !.body = body,
                                  !.lookedUp = HasIdempotencyKey(body),
                                  !.expired = /\ HasIdempotencyKey(body)
                                              /\ body.idempotencyKey[1] \in DOMAIN store
                                              /\ cached.entry = None,
                                  !.steps = IF HasIdempotencyKey(body)
                                            THEN << "lookup" >> ELSE << >>]
    IN
    IF cached.entry # None
    THEN [req |-> [parsed EXCEPT !.pc = "done",
                                 !.statusCode = cached.entry[1].statusCode,
                                 !.response = Deduplicated(cached.entry[1].response),
                                 !.steps = parsed.steps \o << "respond" >>],
          store |-> cached.store]
    ELSE IF BrandLookupNeeded(body)
    THEN [req |-> [parsed EXCEPT !.pc = "brand", !.brandAsked = TRUE,
                                 !.steps = parsed.steps \o << "brand" >>],
          store |-> cached.store]
    ELSE IF body.type = "transactional"
    THEN [req |-> [parsed EXCEPT !.pc = "dispatch",
                                 !.payload = PostmarkPayload(body, None),
                                 !.steps = parsed.steps \o << "compose", "dispatch" >>],
          store |-> cached.store]
    ELSE [req |-> [parsed EXCEPT !.pc = "dispatch", !.payload = InstantlyPayload(body),
                                 !.steps = parsed.steps \o << "dispatch" >>],
          store |-> cached.store]

\* Faulty variant of the step after getBrand: a failed lookup ends the request.
SendAfterBrand_PropagatesFailure(r, reply) ==
    IF ~reply.ok
    THEN [req[r] EXCEPT !.pc = "done", !.brandFailed = TRUE, !.doneAt = now,
                        !.statusCode = 502,
                        !.response = UpstreamError("brand-service GET /brands")]
    ELSE [req[r] EXCEPT !.pc = "dispatch",
                        !.payload = PostmarkPayload(req[r].body, BrandUrlOf(reply))]

\* getBrand settled: the failure is caught, the footer is composed and
\* postmarkClient.sendEmail is called.
SendAfterBrand(r, reply) ==
    [req[r] EXCEPT !.pc = "dispatch",
                   !.brandFailed = ~reply.ok,
                   !.payload = PostmarkPayload(req[r].body, BrandUrlOf(reply)),
                   !.steps = req[r].steps \o << "compose", "dispatch" >>]

\* Faulty variant of the end of an answered send: the response is sent before
\* the outcome is stored.
StoreThenRespond_RespondsFirst(body) ==
    IF HasIdempotencyKey(body) THEN << "respond", "write" >> ELSE << "respond" >>

\* The end of an answered send: if (body.idempotencyKey) idempotencyStore.set(...)
\* and then res.json(response).
StoreThenRespond(body) ==
    IF HasIdempotencyKey(body) THEN << "write", "respond" >> ELSE << "respond" >>

\* Faulty variant of the transactional completion: the 502 is stored too.
SendAfterPostmark_CachesFailure(r, reply) ==
    LET response == IF reply.ok THEN TransactionalSuccess(reply)
                    ELSE UpstreamError("postmark-service POST /send")
        code     == IF reply.ok THEN 200 ELSE 502
    IN  [req |-> [req[r] EXCEPT !.pc = "done", !.result = Some(reply), !.doneAt = now,
                                !.statusCode = code, !.response = response,
                                !.wrote = Truthy(req[r].body.idempotencyKey)],
         store |-> IF Truthy(req[r].body.idempotencyKey)
                   THEN StoreSet(store, req[r].body.idempotencyKey[1], code, response, now)
                   ELSE store]

\* postmarkClient.sendEmail settled.
SendAfterPostmark(r, reply) ==
    IF ~reply.ok
    THEN [req |-> [req[r] EXCEPT !.pc = "done", !.result = Some(reply),
                                 !.doneAt = now, !.statusCode = 502,
                                 !.response = UpstreamError("postmark-service POST /send"),
                                 !.steps = req[r].steps \o << "respond" >>],
          store |-> store]
    ELSE LET response == TransactionalSuccess(reply)
             written  == CacheWrite(req[r].body, store, 200, response, now)
         IN  [req |-> [req[r] EXCEPT !.pc = "done", !.result = Some(reply),
                                     !.statusCode = 200, !.response = response,
                                     !.doneAt = now,
                                     !.wrote = HasIdempotencyKey(req[r].body),
                                     !.steps = req[r].steps \o StoreThenRespond(req[r].body)],
              store |-> written]

\* Faulty variant of the broadcast completion: the catch block stores the 502
\* under the key.
SendAfterInstantly_CachesFailure(r, reply) ==
    LET outcome == IF reply.ok THEN BroadcastOutcome(reply)
                   ELSE [statusCode |-> 502,
                         response |-> UpstreamError("instantly-service POST /send")]
    IN  [req |-> [req[r] EXCEPT !.pc = "done", !.result = Some(reply),
                                !.statusCode = outcome.statusCode,
                                !.response = outcome.response,
                                !.doneAt = now,
                                !.wrote = HasIdempotencyKey(req[r].body),
                                !.steps = req[r].steps \o StoreThenRespond(req[r].body)],
         store |-> CacheWrite(req[r].body, store, outcome.statusCode,
                              outcome.response, now)]

\* instantlyClient.atomicSend settled.
SendAfterInstantly(r, reply) ==
    IF ~reply.ok
    THEN [req |-> [req[r] EXCEPT !.pc = "done", !.result = Some(reply),
                                 !.doneAt = now, !.statusCode = 502,
                                 !.response = UpstreamError("instantly-service POST /send"),
                                 !.steps = req[r].steps \o << "respond" >>],
          store |-> store]
    ELSE LET outcome == BroadcastOutcome(reply)
             written == CacheWrite(req[r].body, store, outcome.statusCode,
                                   outcome.response, now)
         IN  [req |-> [req[r] EXCEPT !.pc = "done", !.result = Some(reply),
                                     !.statusCode = outcome.statusCode,
                                     !.response = outcome.response,
                                     !.doneAt = now,
                                     !.wrote = HasIdempotencyKey(req[r].body),
                                     !.steps = req[r].steps \o StoreThenRespond(req[r].body)],
              store |-> written]

\* POST /stats up to its await, or to its 400.
StatsStart(raw) ==
    IF ~StatsParseOk(raw)
    THEN [IdleStats EXCEPT !.pc = "done", !.body = raw, !.statusCode = 400,
                           !.response = StatsInvalidRequest, !.responses = 1]
    ELSE [IdleStats EXCEPT !.pc = "providers", !.body = raw,
                           !.calls = StatsProviders(StatsParseData(raw).type)]

\* getStats settled on the providers called.
StatsAfterProviders(postmarkResult, instantlyResult) ==
    LET outcome == StatsOutcome(StatsParseData(stats.body), postmarkResult,
                                instantlyResult)
    IN  [stats EXCEPT !.pc = "done", !.statusCode = outcome.statusCode,
                      !.response = outcome.response,
                      !.responses = stats.responses + 1,
                      !.postmarkResult =
                          IF "postmark" \in stats.calls THEN Some(postmarkResult) ELSE None,
                      !.instantlyResult =
                          IF "instantly" \in stats.calls THEN Some(instantlyResult) ELSE None]

\* Faulty variant of the status route: a request bearing a key with an entry
\* in the idempotency cache is answered with that entry's status code.
StatusStart_AnswersFromCache(raw) ==
    IF ~StatusParseOk(raw)
    THEN [IdleStatus EXCEPT !.pc = "done", !.body = raw, !.statusCode = 400,
                            !.response = StatusInvalidRequest, !.responses = 1]
    ELSE IF Truthy(raw.idempotencyKey) /\ raw.idempotencyKey[1] \in DOMAIN store
    THEN [IdleStatus EXCEPT !.pc = "done", !.body = raw,
                            !.statusCode = store[raw.idempotencyKey[1]].statusCode,
                            !.responses = 1]
    ELSE [IdleStatus EXCEPT !.pc = "providers", !.body = raw,
                            !.calls = {"instantly", "postmark"}]

\* POST /status up to its await, or to its 400.
StatusStart(raw) ==
    IF ~StatusParseOk(raw)
    THEN [IdleStatus EXCEPT !.pc = "done", !.body = raw, !.statusCode = 400,
                            !.response = StatusInvalidRequest, !.responses = 1]
    ELSE [IdleStatus EXCEPT !.pc = "providers", !.body = raw,
                            !.calls = {"instantly", "postmark"}]

\* Faulty variant of the status completion: the both-rejected branch sets the
\* 502 and ends without sending it.
StatusAfterProviders_SilentOn502(broadcastResult, transactionalResult) ==
    LET outcome == StatusOutcome(StatusParseData(status.body), broadcastResult,
                                 transactionalResult)
    IN  [status EXCEPT !.pc = "done", !.statusCode = outcome.statusCode,
                       !.response = outcome.response,
                       !.responses =
                           IF BothRejected(broadcastResult, transactionalResult)
                           THEN status.responses ELSE status.responses + 1,
                       !.broadcastResult = Some(broadcastResult),
                       !.transactionalResult = Some(transactionalResult)]

\* getStatus settled on both providers.
StatusAfterProviders(broadcastResult, transactionalResult) ==
    LET outcome == StatusOutcome(StatusParseData(status.body), broadcastResult,
                                 transactionalResult)
    IN  [status EXCEPT !.pc = "done", !.statusCode = outcome.statusCode,
                       !.response = outcome.response,
                       !.responses = status.responses + 1,
                       !.broadcastResult = Some(broadcastResult),
                       !.transactionalResult = Some(transactionalResult)]

\* A request with the configured key reaches the handler.  Requests arrive in
\* the order of their numbers.
Receive(r, raw) ==
    /\ req[r].pc = "idle"
    /\ \A q \in ReqIds : q < r => req[q].pc # "idle"
    /\ LET next == SendStart(r, raw)
       IN  /\ req' = [req EXCEPT ![r] = [next.req EXCEPT !.apiKey = Some(API_KEY)]]
           /\ store' = next.store
           /\ unswept' = UnsweptAfterGet(next.req)
    /\ UNCHANGED << now, queryVars, compose >>

BrandSettles(r, reply) ==
    /\ req[r].pc = "brand"
    /\ req' = [req EXCEPT ![r] = SendAfterBrand(r, reply)]
    /\ UNCHANGED << now, store, queryVars, compose, unswept >>

PostmarkSettles(r, reply) ==
    /\ req[r].pc = "dispatch"
    /\ req[r].payload.provider = "postmark"
    /\ LET next == SendAfterPostmark(r, reply)
       IN  /\ req' = [req EXCEPT ![r] = next.req]
           /\ store' = next.store
           /\ unswept' = UnsweptAfterSet(next.req)
    /\ UNCHANGED << now, queryVars, compose >>

InstantlySettles(r, reply) ==
    /\ req[r].pc = "dispatch"
    /\ req[r].payload.provider = "instantly"
    /\ LET next == SendAfterInstantly(r, reply)
       IN  /\ req' = [req EXCEPT ![r] = next.req]
           /\ store' = next.store
           /\ unswept' = UnsweptAfterSet(next.req)
    /\ UNCHANGED << now, queryVars, compose >>

StatsReceive(raw) ==
    /\ stats.pc = "idle"
    /\ stats' = [StatsStart(raw) EXCEPT !.apiKey = Some(API_KEY)]
    /\ UNCHANGED << now, store, req, status, compose, unswept >>

\* A provider answers a request without groupBy with flat stats: a reply that
\* succeeds carries stats unless the request asked for groups.
AnswersRequest(result) ==
    (result.ok /\ ~Truthy(stats.body.groupBy)) => result.stats # None

StatsSettles(postmarkResult, instantlyResult) ==
    /\ stats.pc = "providers"
    /\ "postmark" \in stats.calls => AnswersRequest(postmarkResult)
    /\ "instantly" \in stats.calls => AnswersRequest(instantlyResult)
    /\ stats' = StatsAfterProviders(postmarkResult, instantlyResult)
    /\ UNCHANGED << now, store, req, status, compose, unswept >>

StatusReceive(raw) ==
    /\ status.pc = "idle"
    /\ status' = [StatusStart(raw) EXCEPT !.apiKey = Some(API_KEY)]
    /\ UNCHANGED << now, store, req, stats, compose, unswept >>

StatusSettles(broadcastResult, transactionalResult) ==
    /\ status.pc = "providers"
    /\ status' = StatusAfterProviders(broadcastResult, transactionalResult)
    /\ UNCHANGED << now, store, req, stats, compose, unswept >>

\* Faulty variant of the join, as of Promise.all: the first rejection ends the
\* wait.
AllSettled_FailFast(calls, results) ==
    \/ \A p \in calls : results[p] # None
    \/ \E p \in calls : results[p] # None /\ ~results[p][1].ok

\* await Promise.allSettled([...]), or the await of the one call made: the
\* handler resumes once every call has settled.  results maps a provider to
\* what its call settled with, None while it is pending.
AllSettled(calls, results) == \A p \in calls : results[p] # None

\* Faulty variant of the destructuring of the settled array: the results are
\* taken in the order the calls settled.
allSettled_InSettleOrder(promises, settled, results) ==
    [i \in 1..Len(promises) |-> results[settled[i]]]

\* const [a, b] = await Promise.allSettled([callA, callB]): one result per
\* call, at the position of the call in the array, whichever settled first.
allSettled(promises, settled, results) ==
    [i \in 1..Len(promises) |-> results[promises[i]]]

\* What the getStats and getStatus calls of the request have settled with.
StatsSettled == [postmark |-> stats.postmarkResult, instantly |-> stats.instantlyResult]

StatusSettled ==
    [postmark |-> status.transactionalResult, instantly |-> status.broadcastResult]

\* The getStats call to provider p settles, the handler still waiting.
StatsCallSettles(p, result) ==
    /\ stats.pc = "providers"
    /\ p \in stats.calls /\ StatsSettled[p] = None
    /\ AnswersRequest(result)
    /\ stats' = IF p = "postmark"
                THEN [stats EXCEPT !.postmarkResult = Some(result),
                                   !.settled = Append(stats.settled, p)]
                ELSE [stats EXCEPT !.instantlyResult = Some(result),
                                   !.settled = Append(stats.settled, p)]
    /\ UNCHANGED << now, store, req, status, compose, unswept >>

\* What the handler of POST /stats answers once its calls have settled in
\* the order given.  With both providers called the results are those of
\* [postmarkResult, instantlyResult] = await Promise.allSettled([...]); a
\* provider that was not called has no result and the handler does not read
\* one.
StatsAnswer(settled) ==
    LET results == IF stats.calls = {"postmark", "instantly"}
                   THEN allSettled(<< "postmark", "instantly" >>, settled, StatsSettled)
                   ELSE << StatsSettled["postmark"], StatsSettled["instantly"] >>
        result(i) == IF results[i] = None THEN StatsFailure("not called")
                     ELSE results[i][1]
    IN  StatsAfterProviders(result(1), result(2))

\* The handler of POST /stats resumes after its await and answers.
StatsResumes ==
    /\ stats.pc = "providers"
    /\ AllSettled(stats.calls, StatsSettled)
    /\ stats' = StatsAnswer(stats.settled)
    /\ UNCHANGED << now, store, req, status, compose, unswept >>

\* The getStatus call to provider p settles, the handler still waiting.
StatusCallSettles(p, result) ==
    /\ status.pc = "providers"
    /\ p \in status.calls /\ StatusSettled[p] = None
    /\ status' = IF p = "postmark"
                 THEN [status EXCEPT !.transactionalResult = Some(result),
                                     !.settled = Append(status.settled, p)]
                 ELSE [status EXCEPT !.broadcastResult = Some(result),
                                     !.settled = Append(status.settled, p)]
    /\ UNCHANGED << now, store, req, stats, compose, unswept >>

\* What the handler of POST /status answers once its calls have settled in
\* the order given: [broadcastResult, transactionalResult] = await
\* Promise.allSettled([instantlyClient.getStatus, postmarkClient.getStatus]).
StatusAnswer(settled) ==
    LET results == allSettled(<< "instantly", "postmark" >>, settled, StatusSettled)
        result(i) == IF results[i] = None THEN StatusFailure ELSE results[i][1]
    IN  StatusAfterProviders(result(1), result(2))

\* The handler of POST /status resumes after Promise.allSettled and answers.
StatusResumes ==
    /\ status.pc = "providers"
    /\ AllSettled(status.calls, StatusSettled)
    /\ status' = StatusAnswer(status.settled)
    /\ UNCHANGED << now, store, req, stats, compose, unswept >>

\* A request to POST /send with any X-API-Key header: serviceAuth, then the
\* handler when serviceAuth calls next().
SendRequest(r, apiKey, raw) ==
    /\ req[r].pc = "idle"
    /\ \A q \in ReqIds : q < r => req[q].pc # "idle"
    /\ IF serviceAuth(apiKey, API_KEY)
       THEN LET next == SendStart(r, raw)
            IN  /\ req' = [req EXCEPT ![r] = [next.req EXCEPT !.apiKey = apiKey]]
                /\ store' = next.store
                /\ unswept' = UnsweptAfterGet(next.req)
       ELSE /\ req' = [req EXCEPT ![r] =
                          [req[r] EXCEPT !.pc = "done", !.apiKey = apiKey, !.body = raw,
                                         !.at = now, !.doneAt = now,
                                         !.before = {q \in ReqIds : Done(q)},
                                         !.statusCode = 401,
                                         !.response = Unauthorized,
                                         !.steps = << "respond" >>]]
            /\ store' = store
            /\ unswept' = unswept
    /\ UNCHANGED << now, queryVars, compose >>

StatsRequest(apiKey, raw) ==
    /\ stats.pc = "idle"
    /\ stats' = IF serviceAuth(apiKey, API_KEY)
                THEN [StatsStart(raw) EXCEPT !.apiKey = apiKey]
                ELSE [IdleStats EXCEPT !.pc = "done", !.apiKey = apiKey, !.body = raw,
                                       !.statusCode = 401, !.responses = 1,
                                       !.response = StatsUnauthorized]
    /\ UNCHANGED << now, store, req, status, compose, unswept >>

StatusRequest(apiKey, raw) ==
    /\ status.pc = "idle"
    /\ status' = IF serviceAuth(apiKey, API_KEY)
                 THEN [StatusStart(raw) EXCEPT !.apiKey = apiKey]
                 ELSE [IdleStatus EXCEPT !.pc = "done", !.apiKey = apiKey, !.body = raw,
                                         !.statusCode = 401, !.responses = 1,
                                         !.response = StatusUnauthorized]
    /\ UNCHANGED << now, store, req, stats, compose, unswept >>

\* buildSignature(type, appId, brandUrl) is called and returns.
BuildSignature(type, appId, brandUrl) ==
    /\ compose' = [IdleCompose EXCEPT !.call = "buildSignature", !.type = type,
                                      !.appId = appId, !.brandUrl = brandUrl,
                                      !.footer = Some(buildSignature(type, appId, brandUrl))]
    /\ UNCHANGED << now, store, req, queryVars, unswept >>

\* appendSignature(htmlBody, type, appId, brandUrl) is called and returns; the
\* footer is composed when the body is not falsy.
AppendSignature(htmlBody, type, appId, brandUrl) ==
    /\ compose' = [IdleCompose EXCEPT !.call = "appendSignature", !.htmlBody = htmlBody,
                                      !.type = type, !.appId = appId, !.brandUrl = brandUrl,
                                      !.footer = IF TruthyText(htmlBody)
                                                 THEN Some(buildSignature(type, appId, brandUrl))
                                                 ELSE None,
                                      !.result = appendSignature(htmlBody, type, appId, brandUrl)]
    /\ UNCHANGED << now, store, req, queryVars, unswept >>

\* The clock advances.
Tick ==
    /\ now < MaxTime
    /\ now' = now + 1
    /\ UNCHANGED << store, req, queryVars, compose, unswept >>

\* The cleanup timer fires.
Cleanup ==
    /\ store' = StoreCleanup(store, now)
    /\ store' # store
    /\ UNCHANGED << now, req, queryVars, compose, unswept >>

Settle(postmarkReplies, instantlyReplies) ==
    \E r \in ReqIds :
        \/ \E reply \in BrandReplies : BrandSettles(r, reply)
        \/ \E reply \in postmarkReplies : PostmarkSettles(r, reply)
        \/ \E reply \in instantlyReplies : InstantlySettles(r, reply)

Next ==
    \/ \E r \in 1..MaxTimed, raw \in SendBodies : Receive(r, raw)
    \/ Settle(PostmarkReplies, InstantlyReplies)
    \/ Tick
    \/ Cleanup

\* Requests on both channels, entries that expire, the cleanup timer.
Spec == Init /\ [][Next]_vars

NextRace ==
    \/ \E r \in 1..MaxReq, raw \in RaceBodies : Receive(r, raw)
    \/ Settle(PostmarkReplies, InstantlyReplies)

\* MaxReq requests bearing one key, in flight together or one after another,
\* within one tick of the clock.
SpecRace == Init /\ [][NextRace]_vars

NextShared ==
    \/ \E r \in 1..MaxTimed, raw \in SharedKeyBodies : Receive(r, raw)
    \/ Settle(PostmarkReplies, InstantlyReplies)
    \/ Tick

\* Sends that share a key and differ in channel, recipient and content, with
\* entries that expire.
SpecShared == Init /\ [][NextShared]_vars

NextCompose ==
    \/ \E r \in 1..MaxTimed, raw \in ComposeBodies : Receive(r, raw)
    \/ Settle(AllPostmarkReplies, AllInstantlyReplies)

\* Requests of every caller and brand state, answered in every way the
\* providers and the brand directory can answer, within one tick of the clock.
SpecCompose == Init /\ [][NextCompose]_vars

NextBoundary ==
    \/ \E r \in 1..MaxTimed, raw \in BoundaryBodies : Receive(r, raw)
    \/ \E r \in ReqIds, reply \in InstantlyReplies : InstantlySettles(r, reply)
    \/ \E raw \in StatsBodies : StatsReceive(raw)
    \/ \E postmarkResult \in PostmarkStatsReplies, instantlyResult \in InstantlyStatsReplies :
          StatsSettles(postmarkResult, instantlyResult)
    \/ \E raw \in StatusBodies : StatusReceive(raw)
    \/ \E broadcastResult \in InstantlyStatusReplies,
          transactionalResult \in PostmarkStatusReplies :
          StatusSettles(broadcastResult, transactionalResult)

\* The three routes, each receiving bodies that pass and bodies that fail its
\* schema, within one tick of the clock.
SpecBoundary == Init /\ [][NextBoundary]_vars

NextAuth ==
    \/ \E r \in 1..MaxTimed, apiKey \in Headers, raw \in AuthBodies :
          SendRequest(r, apiKey, raw)
    \/ \E r \in ReqIds, reply \in InstantlyReplies : InstantlySettles(r, reply)
    \/ \E apiKey \in Headers, raw \in AuthStatsBodies : StatsRequest(apiKey, raw)
    \/ \E postmarkResult \in PostmarkStatsReplies, instantlyResult \in InstantlyStatsReplies :
          StatsSettles(postmarkResult, instantlyResult)
    \/ \E apiKey \in Headers, raw \in AuthStatusBodies : StatusRequest(apiKey, raw)
    \/ \E broadcastResult \in InstantlyStatusReplies,
          transactionalResult \in PostmarkStatusReplies :
          StatusSettles(broadcastResult, transactionalResult)

\* The three protected routes, requested with every kind of X-API-Key header.
SpecAuth == Init /\ [][NextAuth]_vars

NextCache ==
    \/ \E r \in 1..MaxTimed, apiKey \in Headers, raw \in CacheBodies :
          SendRequest(r, apiKey, raw)
    \/ Settle(PostmarkReplies, InstantlyReplies)

\* Sends bearing one key that end in every outcome of the route: 401, 400,
\* 502, 409 and 200.
SpecCache == Init /\ [][NextCache]_vars

\* One broadcast send, answered "not added" or "added".
NextRepeat ==
    \/ \E r \in ReqIds : Receive(r, Broadcast("app_1", None, Some("k1"), Some(SEQUENCE_1)))
    \/ \E r \in ReqIds, reply \in {InstantlyReply(TRUE, "inst_camp", None, 0),
                                    InstantlyReply(TRUE, "inst_camp", Some("lead_1"), 1)} :
          InstantlySettles(r, reply)
    \/ Tick

\* MaxRepeat sends of one body bearing one key: dispatched together, stored
\* one after the other, and repeated while the entry lives.
SpecRepeat == Init /\ [][NextRepeat]_vars

NextKeys ==
    \/ \E r \in 1..MaxReq, raw \in KeyBodies : Receive(r, raw)
    \/ \E r \in ReqIds : PostmarkSettles(r, PostmarkReply(TRUE, Some("pm_1")))
    \/ \E r \in ReqIds : InstantlySettles(r, InstantlyReply(TRUE, "inst_camp", None, 0))
    \/ Tick
    \/ Cleanup

\* MaxReq requests bearing two keys, with entries that expire, are purged on
\* access and are swept.
SpecKeys == Init /\ [][NextKeys]_vars

NextOutcome ==
    \/ \E raw \in ComposeBodies : Receive(1, raw)
    \/ Settle(AllPostmarkReplies, AllInstantlyReplies)
    \/ \E raw \in StatsBodies : StatsReceive(raw)
    \/ \E postmarkResult \in PostmarkStatsReplies, instantlyResult \in InstantlyStatsReplies :
          StatsSettles(postmarkResult, instantlyResult)
    \/ \E raw \in StatusBodies : StatusReceive(raw)
    \/ \E broadcastResult \in InstantlyStatusReplies,
          transactionalResult \in PostmarkStatusReplies :
          StatusSettles(broadcastResult, transactionalResult)

\* One operation of each route, on every channel, with every combination of
\* provider failures.
SpecOutcome == Init /\ [][NextOutcome]_vars

NextJoin ==
    \/ \E raw \in StatsBodies : StatsReceive(raw)
    \/ \E result \in PostmarkStatsReplies : StatsCallSettles("postmark", result)
    \/ \E result \in InstantlyStatsReplies : StatsCallSettles("instantly", result)
    \/ StatsResumes
    \/ \E raw \in StatusBodies : StatusReceive(raw)
    \/ \E result \in PostmarkStatusReplies : StatusCallSettles("postmark", result)
    \/ \E result \in InstantlyStatusReplies : StatusCallSettles("instantly", result)
    \/ StatusResumes

\* The stats and status routes with each provider call settling on its own,
\* in either order, before the handler resumes.
SpecJoin == Init /\ [][NextJoin]_vars

\* A call of SpecUnanswered and SpecSettling settles, when it does, with a
\* failed fetch or with an answer.
BrandCallSettles ==
    \E reply \in {[ok |-> FALSE, brandUrl |-> None],
                  [ok |-> TRUE, brandUrl |-> Some("https://acme.com")]} :
        BrandSettles(1, reply)

PostmarkCallSettles ==
    \E reply \in {PostmarkReply(FALSE, None), PostmarkReply(TRUE, Some("pm_1"))} :
        PostmarkSettles(1, reply)

InstantlyCallSettles ==
    \E reply \in {InstantlyReply(FALSE, "none", None, 0),
                  InstantlyReply(TRUE, "inst_camp", None, 0)} :
        InstantlySettles(1, reply)

StatsCallsSettle(p) ==
    \E result \in {StatsFailure("POST /stats"),
                   FlatStats(Payload(4, 3, 2, None), None, None)} :
        StatsCallSettles(p, result)

StatusCallsSettle(p) ==
    \E result \in {StatusFailure, StatusResults(Some(<< >>))} :
        StatusCallSettles(p, result)

\* The stats requests are the flat aggregate, one channel grouped, and a body
\* that fails the schema; the status requests one that passes the schema and
\* one that fails it.
NextLive ==
    \/ \E raw \in RaceBodies : Receive(1, raw)
    \/ BrandCallSettles
    \/ PostmarkCallSettles
    \/ InstantlyCallSettles
    \/ \E raw \in {StatsBody(None, None),
                    StatsBody(Some("transactional"), Some("brandId")),
                    StatsBody(Some("sms"), None)} : StatsReceive(raw)
    \/ StatsCallsSettle("postmark")
    \/ StatsCallsSettle("instantly")
    \/ StatsResumes
    \/ \E raw \in {StatusBody(Some("campaign_1"),
                               Some(<< Item(Some("lead_1"), "a@example.com") >>)),
                    StatusBody(None, Some(<< Item(None, "a@example.com") >>))} :
          StatusReceive(raw)
    \/ StatusCallsSettle("postmark")
    \/ StatusCallsSettle("instantly")
    \/ StatusResumes

\* The event loop runs a handler whose awaited calls have all settled.
HandlersResume == WF_vars(StatsResumes) /\ WF_vars(StatusResumes)

\* Every call in flight settles: the provider, or the brand directory,
\* answers or the fetch fails.
CallsSettle ==
    /\ WF_vars(BrandCallSettles)
    /\ WF_vars(PostmarkCallSettles)
    /\ WF_vars(InstantlyCallSettles)
    /\ WF_vars(StatsCallsSettle("postmark"))
    /\ WF_vars(StatsCallsSettle("instantly"))
    /\ WF_vars(StatusCallsSettle("postmark"))
    /\ WF_vars(StatusCallsSettle("instantly"))

\* One request of each route.  fetch is called without a signal and without
\* a timer, so a call settles when the provider answers or the connection
\* fails and not otherwise: nothing obliges a call to settle.
SpecUnanswered == Init /\ [][NextLive]_vars /\ HandlersResume

\* One request of each route, with providers and a brand directory that
\* answer, or fail, every call made to them.
SpecSettling == Init /\ [][NextLive]_vars /\ HandlersResume /\ CallsSettle

NextSignature ==
    \/ \E type \in EmailTypes, appId \in AppIds, brandUrl \in BrandUrls :
          BuildSignature(type, appId, brandUrl)
    \/ \E htmlBody \in HtmlBodies, type \in EmailTypes, appId \in AppIds,
          brandUrl \in BrandUrls :
          AppendSignature(htmlBody, type, appId, brandUrl)

\* The signature composer called with every channel, caller, brand URL and
\* body.
SpecSignature == Init /\ [][NextSignature]_vars

NextNormalize ==
    \/ \E raw \in NormalizeBodies : StatsReceive(raw)
    \/ \E result \in SparseStatsReplies : StatsSettles(result, result)

\* Flat stats requests for one channel, answered by its provider with every
\* sparse payload.
SpecNormalize == Init /\ [][NextNormalize]_vars

\* ----------------------------------------------------------------- claims

KeyOf(r) == req[r].body.idempotencyKey

\* r was dispatched and the provider answered it: its outcome is a 200 or a 409.
Cacheable(r) == Done(r) /\ Answered(r) /\ req[r].statusCode \in {200, 409}

\* s started after f had been answered.
StartedAfter(s, f) == f \in req[s].before

\* Neither of the two had been answered when the other started.
Overlapped(f, g) == f # g /\ req[f].pc # "idle" /\ req[g].pc # "idle"
                        /\ ~StartedAfter(f, g) /\ ~StartedAfter(g, f)

\* s started within the time to live of what f stored (or would have stored).
WithinTtlOf(s, f) == req[s].at <= req[f].doneAt + TTL_MS

\* s answered from the cache with the outcome of w.
ServedFrom(s, w) ==
    /\ req[s].statusCode = req[w].statusCode
    /\ req[s].response = Deduplicated(req[w].response)
    /\ ~Dispatched(s)
    /\ ~req[s].brandAsked

\* f completed with a cacheable outcome and s, bearing the same key, started
\* afterwards within the time to live.
Repeats(s, f) ==
    /\ f # s /\ Done(s) /\ Cacheable(f)
    /\ KeyOf(f) # None /\ KeyOf(s) = KeyOf(f)
    /\ StartedAfter(s, f) /\ WithinTtlOf(s, f)

\* C1 as stated: for every idempotency key, a request that starts after a
\* request with the same key completed with a 200 or a 409, while the entry is
\* unexpired, gets the first's status and result with deduplicated = true and
\* reaches no provider and no brand directory; the first carries no flag.
C1_AsStated ==
    \A f, s \in ReqIds :
        Repeats(s, f) =>
            /\ ServedFrom(s, f)
            /\ req[f].response.deduplicated = None
            /\ Dispatched(f)

\* C1 as amended: for every non-empty idempotency key, such a second request
\* is answered from the cache with deduplicated = true and reaches no provider
\* and no brand directory, the first carries no flag, and the status and result
\* returned are those of the first, or of a request with the same key that was
\* in flight together with the first and stored its own outcome.
C1_RepeatServedFromCache ==
    \A f, s \in ReqIds :
        (Repeats(s, f) /\ Truthy(KeyOf(f))) =>
            /\ req[f].response.deduplicated = None
            /\ Dispatched(f)
            /\ \E w \in ReqIds :
                  /\ Cacheable(w) /\ KeyOf(w) = KeyOf(f)
                  /\ w = f \/ Overlapped(w, f)
                  /\ ServedFrom(s, w)

\* A repeat was answered from the cache with the first request's outcome.
C1_Witness ==
    \E f, s \in ReqIds :
        /\ Repeats(s, f) /\ Truthy(KeyOf(f))
        /\ req[f].brandAsked
        /\ ServedFrom(s, f)
        /\ req[s].response.deduplicated = Some(TRUE)

\* The provider call of r threw: the send ended in a transport failure.
Failed(r) == Done(r) /\ req[r].result # None /\ ~req[r].result[1].ok

\* Two requests bear the same idempotency key.
SameKey(f, g) == f # g /\ KeyOf(f) # None /\ KeyOf(g) = KeyOf(f)

\* g answered from the cache, whatever the entry.
Deduped(g) ==
    /\ req[g].response.deduplicated = Some(TRUE)
    /\ ~Dispatched(g)
    /\ ~req[g].brandAsked

\* C2 as stated: for every key, at most one request bearing it is dispatched
\* and answered by a provider, in every interleaving; every other request
\* bearing it either ended in a transport failure or is served from the cache.
C2_AsStated ==
    \A f, g \in ReqIds :
        (SameKey(f, g) /\ Cacheable(f) /\ Done(g)) =>
            /\ ~Answered(g)
            /\ Failed(g) \/ Deduped(g)

\* C2 as amended: for every non-empty key, a request that starts after a
\* request bearing the key was answered by the provider, and within the time
\* to live of that answer, is served from the cache and reaches no provider;
\* two requests bearing the key are both dispatched and answered only if they
\* were in flight together or the later one started after the earlier one's
\* entry had expired.
C2_OneDispatchPerLiveEntry ==
    \A f, g \in ReqIds :
        (SameKey(f, g) /\ Truthy(KeyOf(f)) /\ Cacheable(f) /\ Done(g)) =>
            /\ (StartedAfter(g, f) /\ WithinTtlOf(g, f)) => Deduped(g)
            /\ Answered(g) =>
                  \/ Overlapped(f, g)
                  \/ StartedAfter(g, f) /\ ~WithinTtlOf(g, f)
                  \/ StartedAfter(f, g) /\ ~WithinTtlOf(f, g)
            /\ Failed(g) \/ Deduped(g) \/ Answered(g)

\* Two requests bearing one key were in flight together and both were
\* answered by the provider.
C2_Witness ==
    \E f, g \in ReqIds :
        /\ SameKey(f, g) /\ Truthy(KeyOf(f))
        /\ Cacheable(f) /\ Cacheable(g) /\ Overlapped(f, g)

\* The entry of key k is the outcome returned to w.
EntryIsOutcomeOf(k, w) ==
    /\ k \in DOMAIN store
    /\ store[k].statusCode = req[w].statusCode
    /\ store[k].response = req[w].response

\* f and g, bearing the same key, were in flight together, both were
\* dispatched and both have completed.
BothDispatched(f, g) ==
    /\ SameKey(f, g) /\ Overlapped(f, g)
    /\ Done(f) /\ Done(g) /\ Dispatched(f) /\ Dispatched(g)

\* s, bearing the key of f and g, started after both had completed.
LateDuplicate(s, f, g) ==
    /\ Done(s) /\ StartedAfter(s, f) /\ StartedAfter(s, g)
    /\ KeyOf(s) = KeyOf(f)

\* C3 as stated: once two overlapping requests with the same fresh key have
\* both been dispatched and have completed, the cache holds an entry for the
\* key, equal to the status and result returned to one of the two, and every
\* later request bearing the key within the time to live gets that entry
\* with deduplicated = true.
C3_AsStated ==
    \A f, g \in ReqIds :
        BothDispatched(f, g) =>
            /\ \E w \in {f, g} : EntryIsOutcomeOf(KeyOf(f)[1], w)
            /\ \A s \in ReqIds :
                  (LateDuplicate(s, f, g) /\ (WithinTtlOf(s, f) \/ WithinTtlOf(s, g))) =>
                      /\ Deduped(s)
                      /\ \E w \in {f, g} : ServedFrom(s, w)

\* C3 as amended: if at least one of the two was answered by its provider,
\* then until that answer's time to live has run out the cache holds an entry
\* for the (non-empty) key, equal to the status and result returned to a
\* request bearing the key that the provider answered -- one of the two, or a
\* further request that was in flight together with one of them -- and every
\* later request bearing the key within the time to live is answered from
\* the cache with deduplicated = true and such a request's status and result.
C3_CacheConverges ==
    \A f, g \in ReqIds :
        (BothDispatched(f, g) /\ Truthy(KeyOf(f)) /\ Cacheable(f)) =>
            /\ now <= req[f].doneAt + TTL_MS =>
                  \E w \in ReqIds :
                      /\ Cacheable(w) /\ KeyOf(w) = KeyOf(f)
                      /\ w \in {f, g} \/ Overlapped(w, f) \/ Overlapped(w, g)
                      /\ EntryIsOutcomeOf(KeyOf(f)[1], w)
            /\ \A s \in ReqIds :
                  (LateDuplicate(s, f, g) /\ WithinTtlOf(s, f)) =>
                      /\ Deduped(s)
                      /\ \E w \in ReqIds :
                            /\ Cacheable(w) /\ KeyOf(w) = KeyOf(f)
                            /\ w \in {f, g} \/ Overlapped(w, f) \/ Overlapped(w, g)
                            /\ ServedFrom(s, w)

\* Two overlapping requests were answered differently, the cache holds the
\* outcome of one of them and a later request was served with it.
C3_Witness ==
    \E f, g, s \in ReqIds :
        /\ BothDispatched(f, g) /\ Cacheable(f) /\ Cacheable(g)
        /\ req[f].response # req[g].response
        /\ EntryIsOutcomeOf(KeyOf(f)[1], g)
        /\ LateDuplicate(s, f, g)
        /\ ServedFrom(s, g)

\* The step in which the provider call of r throws.
DispatchFails(r) == req[r].pc = "dispatch" /\ req'[r].pc = "done" /\ ~req'[r].result[1].ok

\* The step in which r arrives bearing the key of a request whose dispatch
\* failed earlier.
RetryArrives(r) ==
    /\ req[r].pc = "idle" /\ req'[r].pc # "idle"
    /\ \E f \in ReqIds :
          Failed(f) /\ KeyOf(f) # None /\ req'[r].body.idempotencyKey = KeyOf(f)

\* The step in which the dispatch of r is answered with a success.
DispatchSucceeds(r) ==
    req[r].pc = "dispatch" /\ req'[r].pc = "done" /\ req'[r].response.success = Some(TRUE)

\* The store holds a live entry for the key r arrives with, the outcome of a
\* request the provider answered.
LiveEntryFor(r) ==
    LET key == req'[r].body.idempotencyKey
    IN  /\ Truthy(key)
        /\ key[1] \in DOMAIN store
        /\ now <= store[key[1]].expiresAt
        /\ \E w \in ReqIds : Cacheable(w) /\ KeyOf(w) = key /\ EntryIsOutcomeOf(key[1], w)

\* C4 as stated: a send whose provider dispatch fails responds 502 with the
\* error "Upstream service error" and leaves the cache as it was; a later
\* request with the same key is dispatched again, and if it succeeds it
\* returns 200 without the deduplicated flag.
C4_AsStated ==
    [][\A r \in ReqIds :
          /\ DispatchFails(r) =>
                /\ req'[r].statusCode = 502
                /\ req'[r].response.error = Some(<< "Upstream service error" >>)
                /\ store' = store
          /\ RetryArrives(r) => req'[r].pc \in {"brand", "dispatch"}
          /\ DispatchSucceeds(r) =>
                req'[r].statusCode = 200 /\ req'[r].response.deduplicated = None]_vars

\* C4 as amended: the same, except that the later request is dispatched again
\* unless the cache then holds a live entry for the key, stored by another
\* request bearing it that the provider answered.
C4_FailureNotCached ==
    [][\A r \in ReqIds :
          /\ DispatchFails(r) =>
                /\ req'[r].statusCode = 502
                /\ req'[r].response.error = Some(<< "Upstream service error" >>)
                /\ store' = store
          /\ RetryArrives(r) =>
                \/ req'[r].pc \in {"brand", "dispatch"}
                \/ LiveEntryFor(r) /\ req'[r].response.deduplicated = Some(TRUE)
          /\ DispatchSucceeds(r) =>
                req'[r].statusCode = 200 /\ req'[r].response.deduplicated = None]_vars

\* A dispatch failed with a 502, and a later request with the same key was
\* dispatched and answered 200 without the flag.
C4_Witness ==
    \E f, s \in ReqIds :
        /\ Failed(f) /\ req[f].statusCode = 502
        /\ SameKey(f, s) /\ StartedAfter(s, f)
        /\ Cacheable(s) /\ req[s].statusCode = 200
        /\ req[s].response.deduplicated = None

\* The broadcast provider answered f with added = 0.
NotAdded(f) ==
    /\ Done(f) /\ req[f].body.type = "broadcast"
    /\ Answered(f) /\ req[f].result[1].added = 0

\* The 409 response of a broadcast send that was not added.
NotAddedResponse(f) ==
    /\ req[f].statusCode = 409
    /\ req[f].response.success = Some(FALSE)
    /\ req[f].response.error # None
    /\ Contains(req[f].response.error[1], "not added")
    /\ req[f].response.campaignId = Some(req[f].result[1].campaignId)

\* C5 as stated: a broadcast send answered with added = 0 responds 409 with
\* success = false, an error containing "not added" and the provider's
\* campaignId; when it bears an idempotency key the outcome is stored, and a
\* repeat with the same key returns 409 with deduplicated = true and no new
\* dispatch.
C5_AsStated ==
    \A f \in ReqIds :
        NotAdded(f) =>
            /\ NotAddedResponse(f)
            /\ KeyOf(f) # None =>
                  /\ req[f].wrote
                  /\ \A s \in ReqIds :
                        (SameKey(f, s) /\ Done(s) /\ StartedAfter(s, f)) =>
                            req[s].statusCode = 409 /\ Deduped(s)

\* C5 as amended: ... when it bears a non-empty idempotency key the outcome
\* is stored, and a repeat with the same key that starts within the time to
\* live is answered from the cache with deduplicated = true and no new
\* dispatch: with this 409, or with the outcome of a request bearing the key
\* that was in flight together with the first and stored its own.
C5_NotAddedIsCached ==
    \A f \in ReqIds :
        NotAdded(f) =>
            /\ NotAddedResponse(f)
            /\ Truthy(KeyOf(f)) =>
                  /\ req[f].wrote
                  /\ \A s \in ReqIds :
                        (SameKey(f, s) /\ Done(s) /\ StartedAfter(s, f)
                            /\ WithinTtlOf(s, f)) =>
                            /\ Deduped(s)
                            /\ \E w \in ReqIds :
                                  /\ Cacheable(w) /\ KeyOf(w) = KeyOf(f)
                                  /\ w = f \/ Overlapped(w, f)
                                  /\ ServedFrom(s, w)

\* A broadcast send was answered 409 and its repeat got the 409 from the cache.
C5_Witness ==
    \E f, s \in ReqIds :
        /\ NotAdded(f) /\ Truthy(KeyOf(f)) /\ req[f].wrote
        /\ SameKey(f, s) /\ StartedAfter(s, f)
        /\ req[s].statusCode = 409 /\ ServedFrom(s, f)

\* r passed validation and was not answered from the cache.
MissedCache(r) ==
    /\ req[r].pc # "idle"
    /\ SendParseOk(req[r].body)
    /\ req[r].response.deduplicated = None

\* The body of a 200 with exactly success, provider, messageId and campaignId.
SuccessBody(provider, messageId, campaignId) ==
    [success |-> Some(TRUE), provider |-> Some(provider), messageId |-> messageId,
     campaignId |-> campaignId, error |-> None, details |-> None,
     deduplicated |-> None]

\* C6: when the provider answers, a transactional send is answered 200 with
\* exactly success = true, provider = "transactional" and the provider's
\* messageId; a broadcast send with added > 0 is answered 200 with exactly
\* success = true, provider = "broadcast", the provider's campaignId, and the
\* leadId as messageId, left out when the leadId is null.
C6_ResponseShape ==
    \A r \in ReqIds :
        (Done(r) /\ Answered(r)) =>
            LET result == req[r].result[1]
            IN  /\ req[r].body.type = "transactional" =>
                      /\ req[r].statusCode = 200
                      /\ req[r].response =
                             SuccessBody("transactional", result.messageId, None)
                /\ (req[r].body.type = "broadcast" /\ result.added > 0) =>
                      /\ req[r].statusCode = 200
                      /\ req[r].response =
                             SuccessBody("broadcast", result.leadId, Some(result.campaignId))

\* A transactional send was answered 200, and a broadcast send whose lead was
\* added with a null leadId was answered 200 without a messageId.
C6_Witness ==
    \E r, q \in ReqIds :
        /\ Done(r) /\ Answered(r) /\ req[r].body.type = "transactional"
        /\ req[r].response.messageId = Some("pm_1")
        /\ Done(q) /\ Answered(q) /\ req[q].body.type = "broadcast"
        /\ req[q].result[1].added > 0 /\ req[q].result[1].leadId = None
        /\ req[q].response.messageId = None
        /\ req[q].response.campaignId = Some("inst_camp")

\* C7 as stated: the brand directory is contacted if and only if the request
\* is transactional, carries a brandId and missed the cache; a broadcast send
\* never contacts it.
C7_AsStated ==
    \A r \in ReqIds :
        /\ req[r].brandAsked <=>
              (req[r].body.type = "transactional" /\ req[r].body.brandId # None
                  /\ MissedCache(r))
        /\ req[r].body.type = "broadcast" => ~req[r].brandAsked

\* C7 as amended: the brand directory is contacted if and only if the request
\* is transactional, carries a non-empty brandId and missed the cache; a
\* broadcast send never contacts it, whatever its appId or brandId.
C7_BrandLookupOnlyWhenNeeded ==
    \A r \in ReqIds :
        /\ req[r].brandAsked <=>
              (req[r].body.type = "transactional" /\ Truthy(req[r].body.brandId)
                  /\ MissedCache(r))
        /\ req[r].body.type = "broadcast" => ~req[r].brandAsked

\* The brand directory was asked for a transactional send, and not for a
\* broadcast send of the house caller that carries a brandId.
C7_Witness ==
    \E r, q \in ReqIds :
        /\ req[r].brandAsked /\ req[r].body.type = "transactional"
        /\ ~req[q].brandAsked /\ Dispatched(q)
        /\ req[q].body.type = "broadcast"
        /\ req[q].body.appId = Some(MCPFACTORY_APP_ID)
        /\ Truthy(req[q].body.brandId)

\* The footer of the body handed to the transactional provider carries tok.
FooterCarries(r, tok) ==
    /\ req[r].payload.htmlBody # None
    /\ Contains(req[r].payload.htmlBody[1], tok)

\* C8 as stated: after a failed brand lookup the dispatch still takes place,
\* the footer carries the placeholder brand token, and status, body and cache
\* write are those of a send whose lookup succeeded.
C8_AsStated ==
    \A r \in ReqIds :
        req[r].brandFailed =>
            /\ Dispatched(r)
            /\ FooterCarries(r, PLACEHOLDER)
            /\ \A q \in ReqIds :
                  (Done(r) /\ Done(q) /\ req[q].brandAsked /\ ~req[q].brandFailed
                      /\ req[q].body = req[r].body /\ req[q].result = req[r].result) =>
                        /\ req[q].statusCode = req[r].statusCode
                        /\ req[q].response = req[r].response
                        /\ req[q].wrote = req[r].wrote

\* C8 as amended: after a failed brand lookup the dispatch to the transactional
\* provider still takes place, the body handed over is composed as for an
\* absent brand URL (the house caller's footer carries the placeholder brand
\* token when the send has an htmlBody; another caller's footer carries no
\* brand token, and a send without htmlBody gets no footer), and status, body
\* and cache write are those of a send whose lookup succeeded.
C8_BrandFailureNotPropagated ==
    \A r \in ReqIds :
        req[r].brandFailed =>
            /\ Dispatched(r)
            /\ req[r].payload.provider = "postmark"
            /\ req[r].payload.htmlBody =
                   appendSignature(req[r].body.htmlBody, "transactional",
                                   req[r].body.appId[1], None)
            /\ FooterCarries(r, PLACEHOLDER) <=>
                   (req[r].body.appId = Some(MCPFACTORY_APP_ID)
                       /\ TruthyText(req[r].body.htmlBody))
            /\ Done(r) => req[r].statusCode \in {200, 502}
            /\ \A q \in ReqIds :
                  (Done(r) /\ Done(q) /\ req[q].brandAsked /\ ~req[q].brandFailed
                      /\ req[q].body = req[r].body /\ req[q].result = req[r].result) =>
                        /\ req[q].statusCode = req[r].statusCode
                        /\ req[q].response = req[r].response
                        /\ req[q].wrote = req[r].wrote

\* Two sends of the house caller with the same body were answered alike by the
\* provider, one after a failed brand lookup and one after a lookup that
\* returned a URL: the first carries the placeholder, both got the same 200.
C8_Witness ==
    \E r, q \in ReqIds :
        /\ Done(r) /\ Done(q) /\ req[r].brandFailed
        /\ req[q].brandAsked /\ ~req[q].brandFailed
        /\ req[q].body = req[r].body /\ req[q].result = req[r].result
        /\ Answered(r) /\ req[r].wrote
        /\ FooterCarries(r, PLACEHOLDER) /\ ~FooterCarries(q, PLACEHOLDER)
        /\ req[r].statusCode = 200 /\ req[q].response = req[r].response

\* No step of the sequence carries the footer's unsubscribe control, signature
\* block or placeholder.
Unsigned(sequence) ==
    \A i \in 1..Len(sequence) :
        /\ ~Contains(sequence[i].bodyHtml, UNSUBSCRIBE)
        /\ ~Contains(sequence[i].bodyHtml, SIGNATURE_BLOCK)
        /\ ~Contains(sequence[i].bodyHtml, PLACEHOLDER)

\* C9: for every broadcast send, whatever the caller and the brand state, what
\* is handed to the broadcast provider carries the caller's step sequence
\* unchanged, no step has a footer appended, and there is no single-email
\* field.
C9_SequenceForwardedUnchanged ==
    \A r \in ReqIds :
        (req[r].body.type = "broadcast" /\ Dispatched(r)) =>
            /\ req[r].payload.provider = "instantly"
            /\ req[r].payload.sequence = req[r].body.sequence
            /\ req[r].payload.sequence # None
            /\ Unsigned(req[r].payload.sequence[1])
            /\ req[r].payload.email = None
            /\ req[r].payload.htmlBody = None

\* A broadcast send of the house caller with a brandId was dispatched with its
\* two steps.
C9_Witness ==
    \E r \in ReqIds :
        /\ req[r].body.type = "broadcast" /\ Dispatched(r)
        /\ req[r].body.appId = Some(MCPFACTORY_APP_ID)
        /\ Truthy(req[r].body.brandId)
        /\ req[r].payload.sequence = Some(SEQUENCE_2)

\* The step receives a POST /send body that fails the schema.
InvalidSendArrives(r) ==
    /\ req[r].pc = "idle" /\ req'[r].pc # "idle"
    /\ ~SendParseOk(req'[r].body)

InvalidStatsArrives ==
    stats.pc = "idle" /\ stats'.pc # "idle" /\ ~StatsParseOk(stats'.body)

InvalidStatusArrives ==
    status.pc = "idle" /\ status'.pc # "idle" /\ ~StatusParseOk(status'.body)

\* C10: a send, stats or status request that fails schema validation is
\* answered 400 "Invalid request" in the step that receives it, with no call
\* to a provider or to the brand directory, no lookup in the idempotency cache
\* and no write to it (the cache is left as it was), also when the body
\* carries an idempotency key.
C10_InvalidRejectedBeforeAnyCall ==
    [][/\ \A r \in ReqIds :
              InvalidSendArrives(r) =>
                  /\ req'[r].pc = "done"
                  /\ req'[r].statusCode = 400
                  /\ req'[r].response.error = Some(<< "Invalid request" >>)
                  /\ req'[r].payload = NoPayload
                  /\ ~req'[r].brandAsked
                  /\ ~req'[r].lookedUp
                  /\ ~req'[r].wrote
                  /\ store' = store
       /\ InvalidStatsArrives =>
              /\ stats'.pc = "done"
              /\ stats'.statusCode = 400
              /\ stats'.response.error = Some("Invalid request")
              /\ stats'.calls = {}
              /\ store' = store
       /\ InvalidStatusArrives =>
              /\ status'.pc = "done"
              /\ status'.statusCode = 400
              /\ status'.response.error = Some("Invalid request")
              /\ status'.calls = {}
              /\ store' = store
      ]_vars

\* With an entry stored under the key, a send bearing the key that fails the
\* schema was answered 400 and not with the entry, and a stats and a status
\* request that fail their schemas were answered 400 with no provider called.
C10_Witness ==
    /\ \E f, r \in ReqIds :
          /\ Cacheable(f) /\ req[f].wrote /\ KeyOf(f) = Some("k1")
          /\ "k1" \in DOMAIN store
          /\ StartedAfter(r, f) /\ Done(r) /\ KeyOf(r) = Some("k1")
          /\ ~SendParseOk(req[r].body)
          /\ req[r].statusCode = 400 /\ req[r].response.deduplicated = None
    /\ stats.pc = "done" /\ ~StatsParseOk(stats.body)
    /\ stats.statusCode = 400 /\ stats.calls = {}
    /\ status.pc = "done" /\ ~StatusParseOk(status.body)
    /\ status.statusCode = 400 /\ status.calls = {}

\* The X-API-Key header is missing or differs from the configured key.
BadCredential(apiKey) == apiKey = None \/ apiKey[1] # API_KEY

\* C11: a request to send, stats or status whose X-API-Key header is missing
\* or differs from the configured key is answered 401 in the step that
\* receives it and never reaches the handler: no provider and no brand
\* directory is contacted, the idempotency cache is neither looked up nor
\* written and is left as it was; and whatever key is configured, the
\* middleware lets no such header through.
C11_BadCredentialRejected ==
    [][/\ \A r \in ReqIds :
              (req[r].pc = "idle" /\ req'[r].pc # "idle" /\ BadCredential(req'[r].apiKey)) =>
                  /\ req'[r].pc = "done"
                  /\ req'[r].statusCode = 401
                  /\ req'[r].response = Unauthorized
                  /\ req'[r].payload = NoPayload
                  /\ ~req'[r].brandAsked
                  /\ ~req'[r].lookedUp
                  /\ ~req'[r].wrote
                  /\ store' = store
       /\ (stats.pc = "idle" /\ stats'.pc # "idle" /\ BadCredential(stats'.apiKey)) =>
              /\ stats'.pc = "done"
              /\ stats'.statusCode = 401
              /\ stats'.calls = {}
              /\ store' = store
       /\ (status.pc = "idle" /\ status'.pc # "idle" /\ BadCredential(status'.apiKey)) =>
              /\ status'.pc = "done"
              /\ status'.statusCode = 401
              /\ status'.calls = {}
              /\ store' = store
       /\ \A apiKey \in Headers, configured \in {"", API_KEY} :
              (apiKey = None \/ apiKey[1] # configured) => ~serviceAuth(apiKey, configured)
      ]_vars

\* With an entry stored under the key, a send bearing the key and another API
\* key was answered 401 and not with the entry, a stats request without
\* header and a status request with an empty header were answered 401, and no
\* provider was called for them.
C11_Witness ==
    /\ \E f, r \in ReqIds :
          /\ Cacheable(f) /\ req[f].wrote /\ KeyOf(f) = Some("k1")
          /\ "k1" \in DOMAIN store
          /\ StartedAfter(r, f) /\ Done(r) /\ KeyOf(r) = Some("k1")
          /\ req[r].apiKey = Some("wrong-key")
          /\ req[r].statusCode = 401 /\ ~Dispatched(r)
    /\ stats.pc = "done" /\ stats.apiKey = None
    /\ stats.statusCode = 401 /\ stats.calls = {}
    /\ status.pc = "done" /\ status.apiKey = Some("")
    /\ status.statusCode = 401 /\ status.calls = {}

\* The stats request passed validation and was answered.
StatsAnswered == stats.pc = "done" /\ stats.apiKey = Some(API_KEY) /\ StatsParseOk(stats.body)

\* What handleFlat puts under a channel's key for what its provider call
\* settled with: normalized stats, or the failure's message.
ChannelValue(result, withSteps) ==
    IF result.ok
    THEN LET base == normalizePayload(result.stats[1], result.recipients)
         IN  Some(IF withSteps /\ result.stepStats # None
                  THEN [base EXCEPT !.stepStats = result.stepStats] ELSE base)
    ELSE Some([error |-> result.message])

GroupedAggregate ==
    StatsAnswered /\ stats.body.type = None /\ Truthy(stats.body.groupBy)

\* The groups a provider call returned: none when it failed or answered flat.
ReturnedGroups(result) ==
    IF result.ok /\ result.groups # None THEN result.groups[1] ELSE << >>

KeysOf(groups) == {groups[i].key : i \in 1..Len(groups)}

\* The group list has the field of a channel, with the provider's normalized
\* stats, exactly on the keys the provider returned.
ChannelOnItsKeys(merged, returned, channel) ==
    \A i \in 1..Len(merged) :
        LET field == IF channel = "transactional" THEN merged[i].transactional
                     ELSE merged[i].broadcast
        IN  /\ field # None <=> merged[i].key \in KeysOf(returned)
            /\ \A j \in 1..Len(returned) :
                  returned[j].key = merged[i].key =>
                      field = Some(normalizePayload(returned[j].stats,
                                                    returned[j].recipients))

\* C13: for a grouped stats request with no channel where both providers
\* return groups, the answer is 200 with exactly one group per key of the
\* union of the two key sets; a group has the transactional field if and only
\* if the transactional provider returned its key, and the broadcast field if
\* and only if the broadcast provider did; the other side is absent, not
\* zero-filled.  Key sets {A, B} and {A, C} give three groups.
C13_GroupsMergedByKey ==
    (GroupedAggregate /\ stats.postmarkResult[1].ok /\ stats.instantlyResult[1].ok
        /\ isGrouped(stats.postmarkResult[1]) /\ isGrouped(stats.instantlyResult[1])) =>
        LET fromPostmark  == ReturnedGroups(stats.postmarkResult[1])
            fromInstantly == ReturnedGroups(stats.instantlyResult[1])
            merged        == stats.response.groups[1]
        IN  /\ stats.statusCode = 200
            /\ stats.response.groups # None
            /\ stats.response.error = None
            /\ KeysOf(merged) = KeysOf(fromPostmark) \cup KeysOf(fromInstantly)
            /\ Len(merged) = Cardinality(KeysOf(merged))
            /\ ChannelOnItsKeys(merged, fromPostmark, "transactional")
            /\ ChannelOnItsKeys(merged, fromInstantly, "broadcast")

\* Key sets {brand_2, brand_1} and {brand_2, brand_3} were merged into three
\* groups: brand_2 with both fields, brand_1 and brand_3 with one each.
C13_Witness ==
    /\ GroupedAggregate
    /\ KeysOf(ReturnedGroups(stats.postmarkResult[1])) = {"brand_1", "brand_2"}
    /\ KeysOf(ReturnedGroups(stats.instantlyResult[1])) = {"brand_2", "brand_3"}
    /\ Len(stats.response.groups[1]) = 3
    /\ \E i, j, k \in 1..3 :
          LET merged == stats.response.groups[1]
          IN  /\ merged[i].key = "brand_2"
              /\ merged[i].transactional # None /\ merged[i].broadcast # None
              /\ merged[j].key = "brand_1"
              /\ merged[j].transactional # None /\ merged[j].broadcast = None
              /\ merged[k].key = "brand_3"
              /\ merged[k].transactional = None /\ merged[k].broadcast # None

\* The group list is the list of one provider's groups, in the provider's
\* order, each with that channel's normalized stats and nothing else.
ExactlyGroupsOf(merged, returned, channel) ==
    /\ Len(merged) = Len(returned)
    /\ \A i \in 1..Len(returned) :
          LET n == Some(normalizePayload(returned[i].stats, returned[i].recipients))
          IN  merged[i] =
                  [key |-> returned[i].key,
                   transactional |-> IF channel = "transactional" THEN n ELSE None,
                   broadcast     |-> IF channel = "broadcast" THEN n ELSE None]

\* C14: a grouped stats request with no channel is answered 200 with a group
\* list whatever the providers do; a provider whose call fails contributes no
\* group: with one failing the list is exactly the surviving provider's
\* groups, with both failing it is empty; there is no error response and no
\* error object in a group.
C14_GroupedFailureGivesNoGroups ==
    GroupedAggregate =>
        LET postmarkResult  == stats.postmarkResult[1]
            instantlyResult == stats.instantlyResult[1]
            merged          == stats.response.groups[1]
        IN  /\ stats.statusCode = 200
            /\ stats.response.groups # None
            /\ stats.response.error = None
            /\ stats.response.transactional = None /\ stats.response.broadcast = None
            /\ ChannelOnItsKeys(merged, ReturnedGroups(postmarkResult), "transactional")
            /\ ChannelOnItsKeys(merged, ReturnedGroups(instantlyResult), "broadcast")
            /\ (~postmarkResult.ok /\ instantlyResult.ok) =>
                   ExactlyGroupsOf(merged, ReturnedGroups(instantlyResult), "broadcast")
            /\ (postmarkResult.ok /\ ~instantlyResult.ok) =>
                   ExactlyGroupsOf(merged, ReturnedGroups(postmarkResult), "transactional")
            /\ (~postmarkResult.ok /\ ~instantlyResult.ok) => merged = << >>

\* A grouped request with no channel whose two provider calls failed was
\* answered 200 with an empty group list.
C14_Witness ==
    /\ GroupedAggregate
    /\ ~stats.postmarkResult[1].ok /\ ~stats.instantlyResult[1].ok
    /\ stats.statusCode = 200
    /\ stats.response.groups = Some(<< >>)

\* A provider that the stats request called failed.
SomeProviderFailed ==
    \/ stats.postmarkResult # None /\ ~stats.postmarkResult[1].ok
    \/ stats.instantlyResult # None /\ ~stats.instantlyResult[1].ok

\* C15 as stated: in grouped mode, for every channel selection (none,
\* transactional, broadcast), when a provider call fails the answer is 200
\* with a group list to which that provider contributes no group, and the
\* failure is not surfaced as an error.
C15_AsStated ==
    (StatsAnswered /\ Truthy(stats.body.groupBy) /\ SomeProviderFailed) =>
        /\ stats.statusCode = 200
        /\ stats.response.groups # None
        /\ stats.response.error = None
        /\ ChannelOnItsKeys(stats.response.groups[1],
                            IF stats.postmarkResult = None THEN << >>
                            ELSE ReturnedGroups(stats.postmarkResult[1]), "transactional")
        /\ ChannelOnItsKeys(stats.response.groups[1],
                            IF stats.instantlyResult = None THEN << >>
                            ELSE ReturnedGroups(stats.instantlyResult[1]), "broadcast")

\* The status request passed validation and was answered.
StatusAnswered ==
    status.pc = "done" /\ status.apiKey = Some(API_KEY) /\ StatusParseOk(status.body)

\* The results a getStatus call returned: none when it failed.
ReturnedResults(result) == IF result.ok THEN result.results[1] ELSE << >>

\* The sub-object of an item for one provider: absent when the provider
\* returned no result for the address, else the campaign and global scopes of
\* the result it returned for it (of the last one, were there several).
SubObjectFor(sub, email, returned) ==
    LET matches == {j \in 1..Len(returned) : returned[j].email = email}
    IN  /\ sub # None <=> matches # {}
        /\ sub # None =>
              \E j \in matches :
                  /\ \A k \in matches : k <= j
                  /\ sub = Some([campaign |-> returned[j].campaign,
                                 global   |-> returned[j].global])

\* C16: when at least one getStatus call succeeds the answer is 200 with one
\* result per item, in the items' order, each with the item's leadId and
\* email; a result has the broadcast sub-object (campaign and global) if and
\* only if the broadcast provider succeeded and returned a result for the
\* item's email, and likewise the transactional one.  An address that was not
\* requested gives no result; no match at all gives results without
\* sub-objects.
C16_OneResultPerItem ==
    (StatusAnswered /\ (status.broadcastResult[1].ok \/ status.transactionalResult[1].ok)) =>
        LET items   == status.body.items[1]
            results == status.response.results[1]
        IN  /\ status.statusCode = 200
            /\ status.response.error = None
            /\ status.response.results # None
            /\ Len(results) = Len(items)
            /\ \A i \in 1..Len(items) :
                  /\ results[i].leadId = items[i].leadId
                  /\ results[i].email = items[i].email
                  /\ SubObjectFor(results[i].broadcast, items[i].email,
                                  ReturnedResults(status.broadcastResult[1]))
                  /\ SubObjectFor(results[i].transactional, items[i].email,
                                  ReturnedResults(status.transactionalResult[1]))

\* Two items were answered in order: the first with the broadcast sub-object
\* only, taken from the last result for its address, the second with the
\* transactional one only; the address c@example.com, returned but not
\* requested, gave no result.
C16_Witness ==
    /\ StatusAnswered /\ status.statusCode = 200
    /\ Len(ReturnedResults(status.broadcastResult[1])) = 3
    /\ Len(ReturnedResults(status.transactionalResult[1])) = 1
    /\ Len(status.response.results[1]) = 2
    /\ LET results == status.response.results[1]
       IN  /\ results[1].leadId = Some("lead_1") /\ results[1].email = "a@example.com"
           /\ results[1].broadcast # None /\ results[1].transactional = None
           /\ results[1].broadcast[1].campaign.lead.delivered
           /\ results[2].leadId = None /\ results[2].email = "b@example.com"
           /\ results[2].broadcast = None /\ results[2].transactional # None

\* C17: the status route answers 502 with the error "Both upstream services
\* failed" if and only if both getStatus calls fail; when exactly one fails
\* the answer is 200 and is built from the surviving provider's results: no
\* result has the sub-object of the provider that failed.
C17_BothFailedIsTheOnly502 ==
    StatusAnswered =>
        LET broadcastResult     == status.broadcastResult[1]
            transactionalResult == status.transactionalResult[1]
            results             == status.response.results[1]
        IN  /\ (status.statusCode = 502
                   /\ status.response.error = Some("Both upstream services failed"))
                   <=> (~broadcastResult.ok /\ ~transactionalResult.ok)
            /\ (~broadcastResult.ok /\ ~transactionalResult.ok) =>
                   status.response.results = None
            /\ (broadcastResult.ok /\ ~transactionalResult.ok) =>
                   /\ status.statusCode = 200
                   /\ \A i \in 1..Len(results) :
                         /\ results[i].transactional = None
                         /\ SubObjectFor(results[i].broadcast, results[i].email,
                                         ReturnedResults(broadcastResult))
            /\ (~broadcastResult.ok /\ transactionalResult.ok) =>
                   /\ status.statusCode = 200
                   /\ \A i \in 1..Len(results) :
                         /\ results[i].broadcast = None
                         /\ SubObjectFor(results[i].transactional, results[i].email,
                                         ReturnedResults(transactionalResult))

\* With the transactional provider failing alone the answer was 200 with a
\* broadcast sub-object for the first item.
C17_Witness ==
    /\ StatusAnswered
    /\ status.broadcastResult[1].ok /\ ~status.transactionalResult[1].ok
    /\ status.statusCode = 200
    /\ status.response.results[1][1].broadcast # None
    /\ status.response.results[1][2].broadcast = None

\* A flat request for one channel was answered with normalized stats.
Normalized ==
    /\ stats.pc = "done" /\ stats.statusCode = 200
    /\ stats.body.groupBy = None /\ stats.body.type # None

\* The provider's reply of such a request, and the stats answered for it.
RawResult ==
    IF stats.body.type = Some("transactional")
    THEN stats.postmarkResult[1] ELSE stats.instantlyResult[1]

NormalizedStats ==
    IF stats.body.type = Some("transactional")
    THEN stats.response.transactional[1] ELSE stats.response.broadcast[1]

\* C18: each canonical reply-subtype counter the raw payload omits is 0 in
\* the normalized stats, never absent, and each one it provides is copied
\* unchanged.
C18_ReplyCountersDefaultToZero ==
    Normalized =>
        \A name \in ReplyCounters :
            /\ RawResult.stats[1][name] = None => NormalizedStats[name] = Some(0)
            /\ RawResult.stats[1][name] # None =>
                   NormalizedStats[name] = RawResult.stats[1][name]

\* A payload that omits some reply-subtype counters and provides others was
\* normalized: 0 for one omitted, the value given for one provided.
C18_Witness ==
    /\ Normalized
    /\ RawResult.stats[1].repliesInterested = None
    /\ NormalizedStats.repliesInterested = Some(0)
    /\ RawResult.stats[1].repliesOutOfOffice = Some(6)
    /\ NormalizedStats.repliesOutOfOffice = Some(6)

\* C19: the normalized recipients is the provider's explicit recipient count
\* whenever one is present, an explicit 0 included, and is the sent counter
\* for every payload without one.
C19_RecipientsFallBackToSent ==
    Normalized =>
        /\ RawResult.recipients # None => NormalizedStats.recipients = RawResult.recipients
        /\ RawResult.recipients = None =>
               NormalizedStats.recipients = RawResult.stats[1].emailsSent

\* An explicit recipient count of 0 was kept although the payload has a sent
\* counter of 12.
C19_Witness ==
    /\ Normalized
    /\ RawResult.recipients = Some(0)
    /\ RawResult.stats[1].emailsSent = Some(12)
    /\ NormalizedStats.recipients = Some(0)

\* The fields of the normalized stats.
NormalizedFields == CoreCounters \cup ReplyCounters \cup {"recipients"}

\* C20 as stated: every raw payload, whatever counters and recipient count it
\* lacks, maps to normalized stats in which the six core counters, the
\* reply-subtype counters and recipients all hold a number.
C20_AsStated ==
    Normalized => \A name \in NormalizedFields : NormalizedStats[name] # None

\* The signature composer returned a footer.
Composed == compose.call # "none" /\ compose.footer # None

\* C21: for every caller id and every brand URL a broadcast footer is the
\* empty string; a transactional footer for the house caller contains the
\* branded signature block and the unsubscribe control; a transactional
\* footer for any other caller contains the unsubscribe control and never the
\* branded signature block.
C21_FooterFollowsChannelAndCaller ==
    Composed =>
        LET footer == compose.footer[1]
        IN  /\ compose.type = "broadcast" => footer = << >>
            /\ (compose.type = "transactional" /\ compose.appId = MCPFACTORY_APP_ID) =>
                   Contains(footer, SIGNATURE_BLOCK) /\ Contains(footer, UNSUBSCRIBE)
            /\ (compose.type = "transactional" /\ compose.appId # MCPFACTORY_APP_ID) =>
                   Contains(footer, UNSUBSCRIBE) /\ ~Contains(footer, SIGNATURE_BLOCK)

\* A transactional footer was composed for a caller other than the house
\* caller, with a brand URL at hand: the unsubscribe control alone.
C21_Witness ==
    /\ compose.call = "buildSignature" /\ compose.type = "transactional"
    /\ compose.appId = "app_1" /\ compose.brandUrl = Some("https://acme.com")
    /\ compose.footer = Some(<< "<a href=", UNSUBSCRIBE, ">Unsubscribe</a>" >>)

\* The step in which the handler composes the footer of r's body and hands
\* the body to the transactional provider.
FooterComposed(r) ==
    /\ req[r].pc \in {"idle", "brand"} /\ req'[r].pc = "dispatch"
    /\ req'[r].payload.provider = "postmark"
    /\ req'[r].payload.htmlBody # None

\* The brand URL the handler has in that step: none when no lookup was made,
\* else what the lookup left, for every reply the step can be the
\* continuation of.
BrandUrlsAtHand(r) ==
    IF req[r].pc = "idle" THEN {None}
    ELSE {BrandUrlOf(reply) : reply \in {b \in BrandReplies : req'[r] = SendAfterBrand(r, b)}}

\* Every link of the text has a target.
HrefsFilled(text) ==
    \A i \in 1..Len(text) : text[i] = "<a href=" => (i < Len(text) /\ text[i + 1] # "")

\* C22 as stated: whenever a transactional footer is composed without a brand
\* URL (no brandId, a failed lookup, a record whose brandUrl is null or empty)
\* the footer contains the placeholder token as link target, never an empty
\* href; when a brand URL is available it contains that URL and not the
\* placeholder.
C22_AsStated ==
    [][\A r \in ReqIds : FooterComposed(r) =>
          \A brandUrl \in BrandUrlsAtHand(r) :
              LET html == req'[r].payload.htmlBody[1]
              IN  /\ HrefsFilled(html)
                  /\ ~Truthy(brandUrl) => Contains(html, PLACEHOLDER)
                  /\ Truthy(brandUrl) =>
                         Contains(html, brandUrl[1]) /\ ~Contains(html, PLACEHOLDER)]_vars

\* C22 as amended: the attribution link belongs to the house caller's footer.
\* Composed without a brand URL, that footer has the placeholder token as the
\* link's target; composed with one, it has the URL and not the placeholder.
\* The footer of any other caller has neither, and no link of a footer has an
\* empty target.
C22_HouseFooterLinksBrandOrPlaceholder ==
    [][\A r \in ReqIds : FooterComposed(r) =>
          \A brandUrl \in BrandUrlsAtHand(r) :
              LET html  == req'[r].payload.htmlBody[1]
                  house == req'[r].body.appId = Some(MCPFACTORY_APP_ID)
              IN  /\ HrefsFilled(html)
                  /\ (house /\ ~Truthy(brandUrl)) => Contains(html, PLACEHOLDER)
                  /\ (house /\ Truthy(brandUrl)) =>
                         Contains(html, brandUrl[1]) /\ ~Contains(html, PLACEHOLDER)
                  /\ ~house =>
                         /\ ~Contains(html, PLACEHOLDER)
                         /\ \A reply \in BrandReplies :
                               Truthy(reply.brandUrl) => ~Contains(html, reply.brandUrl[1])]_vars

\* A send of the house caller without brandId was handed to the provider with
\* the placeholder in its footer, the brand directory not contacted.
C22_Witness ==
    \E r \in ReqIds :
        /\ req[r].body.type = "transactional"
        /\ req[r].body.appId = Some(MCPFACTORY_APP_ID)
        /\ req[r].body.brandId = None /\ ~req[r].brandAsked
        /\ Dispatched(r)
        /\ FooterCarries(r, PLACEHOLDER) /\ HrefsFilled(req[r].payload.htmlBody[1])

\* C23 as stated: appendSignature returns no body if and only if it was given
\* none; for every body given, the empty string included, it returns the body
\* followed by the composed footer, the body unchanged when the footer is
\* empty.
C23_AsStated ==
    compose.call = "appendSignature" =>
        /\ compose.result = None <=> compose.htmlBody = None
        /\ compose.htmlBody # None =>
               compose.result =
                   Some(compose.htmlBody[1]
                            \o buildSignature(compose.type, compose.appId, compose.brandUrl))

\* Request r, a send that carries no idempotency key, takes a step of its
\* handler.
KeylessStep(r) ==
    /\ req'[r] # req[r]
    /\ req'[r].body.type \in EmailTypes
    /\ req'[r].body.idempotencyKey = None

\* C24: a POST /send without an idempotency key never reads or writes the
\* idempotency cache: every step of its handler leaves the cache as it was,
\* get and set are not called, the send is dispatched to the provider, and
\* its response never carries the deduplicated flag, however many identical
\* requests came before.
C24_KeylessSendBypassesCache ==
    [][\A r \in ReqIds : KeylessStep(r) =>
          /\ store' = store
          /\ ~req'[r].lookedUp /\ ~req'[r].wrote
          /\ req'[r].pc = "brand" \/ req'[r].payload.provider # "none"
          /\ req'[r].pc = "done" =>
                 /\ req'[r].payload.provider # "none"
                 /\ req'[r].result # None
                 /\ req'[r].response.deduplicated = None]_vars

\* Two identical sends without a key, one after the other, were both answered
\* by the provider with 200, neither through the cache.
C24_Witness ==
    \E r, q \in ReqIds :
        /\ r # q /\ req[r].body = req[q].body /\ req[r].body.idempotencyKey = None
        /\ req[r].body.type \in EmailTypes
        /\ StartedAfter(q, r)
        /\ Done(r) /\ Done(q) /\ Answered(r) /\ Answered(q)
        /\ req[r].statusCode = 200 /\ req[q].statusCode = 200
        /\ req[q].response.deduplicated = None
        /\ ~req[q].lookedUp /\ ~req[q].wrote

\* The entry the cache holds for a key, if any.
EntryOf(st, key) == IF key \in DOMAIN st THEN Some(st[key]) ELSE None

\* C25: idempotency keys are isolated from one another.  A step of a request
\* bearing key a (its lookup, which may purge the expired entry of a, or its
\* store) leaves the entry of every other key as it was; a request is served
\* from the cache only with the entry of its own key, and is dispatched when
\* only other keys have entries; the passing of time changes no entry, and the
\* sweep leaves every entry that has not itself expired.
C25_KeysIsolated ==
    [][/\ \A r \in ReqIds : (req'[r] # req[r] /\ Truthy(req'[r].body.idempotencyKey)) =>
              LET a == req'[r].body.idempotencyKey[1]
              IN  /\ \A b \in (DOMAIN store \cup DOMAIN store') \ {a} :
                         EntryOf(store', b) = EntryOf(store, b)
                  /\ req'[r].response.deduplicated = Some(TRUE) =>
                         /\ a \in DOMAIN store
                         /\ req'[r].statusCode = store[a].statusCode
                         /\ req'[r].response = Deduplicated(store[a].response)
                  /\ (req[r].pc = "idle" /\ a \notin DOMAIN store) =>
                         /\ req'[r].response.deduplicated = None
                         /\ req'[r].payload.provider # "none"
       /\ now' # now => store' = store
       /\ (req' = req /\ now' = now) =>
              \A b \in DOMAIN store :
                  ~(now > store[b].expiresAt) => EntryOf(store', b) = EntryOf(store, b)]_vars

\* A request bearing k1 found its entry expired and purged it, was dispatched
\* and stored anew, while the live entry of k2 stayed what the send bearing k2
\* had stored.
C25_Witness ==
    \E r, q, s \in ReqIds :
        /\ KeyOf(r) = Some("k1") /\ KeyOf(s) = Some("k1") /\ KeyOf(q) = Some("k2")
        /\ Done(r) /\ Done(q) /\ Done(s)
        /\ StartedAfter(s, r) /\ StartedAfter(s, q)
        /\ req[r].wrote /\ req[q].wrote /\ req[s].wrote
        /\ req[s].at > req[r].doneAt + TTL_MS
        /\ req[s].at <= req[q].doneAt + TTL_MS
        /\ req[s].response.deduplicated = None
        /\ "k2" \in DOMAIN store
        /\ store["k2"].response = req[q].response
        /\ store["k2"].expiresAt = req[q].doneAt + TTL_MS
        /\ "k1" \in DOMAIN store
        /\ store["k1"].expiresAt = req[s].doneAt + TTL_MS

\* The getStats and getStatus calls of the operation that succeeded.
StatsSucceeded ==
    {p \in stats.calls :
        IF p = "postmark" THEN stats.postmarkResult[1].ok ELSE stats.instantlyResult[1].ok}

StatusSucceeded ==
    {p \in status.calls :
        IF p = "postmark" THEN status.transactionalResult[1].ok
        ELSE status.broadcastResult[1].ok}

LookupStep(r) == req[r].pc = "idle" /\ req'[r].pc # "idle" /\ req'[r].lookedUp

\* The step in which the handler of r, whose lookup found an expired entry,
\* sends its response.
CompletesAfterExpiry(r) == req[r].pc # "done" /\ req'[r].pc = "done" /\ req'[r].expired

\* What the lookup does at the clock's time: it returns the entry if and only
\* if there is one and the time is not later than its expiry, leaving the
\* cache as it is; an entry past its expiry is removed, no other entry is,
\* and the send goes on to its dispatch.
LookupReturnsLiveEntry(r) ==
    LET key  == req'[r].body.idempotencyKey[1]
        live == key \in DOMAIN store /\ now <= store[key].expiresAt
        hit  == req'[r].response.deduplicated = Some(TRUE)
    IN  /\ hit <=> live
        /\ live =>
               /\ req'[r].pc = "done" /\ store' = store
               /\ req'[r].statusCode = store[key].statusCode
               /\ req'[r].response = Deduplicated(store[key].response)
        /\ (key \in DOMAIN store /\ now > store[key].expiresAt) =>
               /\ store' = StoreDelete(store, key)
               /\ req'[r].expired
               /\ req'[r].pc \in {"brand", "dispatch"}
        /\ key \notin DOMAIN store => store' = store /\ ~req'[r].expired

\* The entry a send stores when it completes at the clock's time.
FreshEntry(r) ==
    LET key == req'[r].body.idempotencyKey[1]
    IN  /\ key \in DOMAIN store'
        /\ store'[key] = [response |-> req'[r].response, statusCode |-> req'[r].statusCode,
                          expiresAt |-> now + TTL_MS]

\* C27 as stated: the lookup returns the stored entry if and only if there is
\* one and the time is not later than its expiry; an entry past its expiry is
\* reported absent and removed, so the send is dispatched again and stores a
\* fresh entry.
C27_AsStated ==
    [][\A r \in ReqIds :
          /\ LookupStep(r) => LookupReturnsLiveEntry(r)
          /\ CompletesAfterExpiry(r) =>
                 /\ req'[r].payload.provider # "none"
                 /\ FreshEntry(r)]_vars

\* C27 as amended: the same lookup; the send that found its entry expired is
\* dispatched again and stores a fresh entry when the provider answers it
\* (200 or 409), and leaves the cache as it is when the dispatch fails.
C27_ExpiredEntryPurgedOnLookup ==
    [][\A r \in ReqIds :
          /\ LookupStep(r) => LookupReturnsLiveEntry(r)
          /\ CompletesAfterExpiry(r) =>
                 /\ req'[r].payload.provider # "none"
                 /\ req'[r].result # None
                 /\ req'[r].result[1].ok => FreshEntry(r)
                 /\ ~req'[r].result[1].ok => store' = store]_vars

\* A send found the entry of its key expired, was dispatched again and
\* answered, and the cache holds its outcome with a new expiry.
C27_Witness ==
    \E r, f \in ReqIds :
        /\ SameKey(f, r) /\ Cacheable(f) /\ StartedAfter(r, f)
        /\ req[r].at > req[f].doneAt + TTL_MS
        /\ req[r].expired /\ Done(r) /\ Answered(r)
        /\ req[r].response.deduplicated = None
        /\ KeyOf(r)[1] \in DOMAIN store
        /\ store[KeyOf(r)[1]].expiresAt = req[r].doneAt + TTL_MS
        /\ store[KeyOf(r)[1]].response = req[r].response

\* The step in which the handler of r calls idempotencyStore.set.
StoreStep(r) == req[r].pc # "done" /\ req'[r].pc = "done" /\ req'[r].wrote

\* C28: set(key, statusCode, result) at time t leaves the cache holding for
\* the key exactly (statusCode, result, expiry t + TTL), whatever entry and
\* expiry the key had before, and no other entry changes; a second store on
\* the key overwrites the first and restarts the window.
C28_StoreReplacesEntryAndExpiry ==
    [][\A r \in ReqIds : StoreStep(r) =>
          LET key == req'[r].body.idempotencyKey[1]
          IN  /\ DOMAIN store' = DOMAIN store \cup {key}
              /\ store'[key].statusCode = req'[r].statusCode
              /\ store'[key].response = req'[r].response
              /\ store'[key].expiresAt = now + TTL_MS
              /\ \A other \in DOMAIN store \ {key} : store'[other] = store[other]]_vars

\* Two sends bearing one key were in flight together; the second stored one
\* tick after the first: the cache holds the second's outcome, another than
\* the first's, with the window counted from the second store.
C28_Witness ==
    \E f, g \in ReqIds :
        /\ SameKey(f, g) /\ Done(f) /\ Done(g)
        /\ req[f].wrote /\ req[g].wrote
        /\ req[g].doneAt = req[f].doneAt + 1
        /\ req[g].at <= req[f].doneAt
        /\ req[f].response # req[g].response
        /\ KeyOf(g)[1] \in DOMAIN store
        /\ store[KeyOf(g)[1]] = [response |-> req[g].response,
                                 statusCode |-> req[g].statusCode,
                                 expiresAt |-> req[g].doneAt + TTL_MS]

\* The cleanup timer fired and removed something.
SweepStep == store' # store /\ req' = req /\ now' = now

\* C29: the sweep removes exactly the entries whose expiry is earlier than
\* the time of the sweep and leaves every other entry as it is; and every
\* lookup of the swept cache is answered as the same lookup of the cache that
\* went through the same get and set calls without ever being swept: a hit
\* on the one is a hit on the other, with the same entry.
C29_SweepIsInvisible ==
    [][/\ SweepStep =>
              /\ DOMAIN store' = {k \in DOMAIN store : ~(store[k].expiresAt < now)}
              /\ \A k \in DOMAIN store' : store'[k] = store[k]
              /\ unswept' = unswept
       /\ \A r \in ReqIds : LookupStep(r) =>
              LET key  == req'[r].body.idempotencyKey[1]
                  live == key \in DOMAIN unswept /\ now <= unswept[key].expiresAt
              IN  /\ req'[r].response.deduplicated = Some(TRUE) <=> live
                  /\ live =>
                         /\ req'[r].statusCode = unswept[key].statusCode
                         /\ req'[r].response = Deduplicated(unswept[key].response)
                  /\ ~live => req'[r].pc \in {"brand", "dispatch"}]_vars

\* The entry a send had stored was swept after its expiry: the only other
\* send bearing the key came later, found no entry to purge and was
\* dispatched, as it would have been had the entry still been there, expired.
C29_Witness ==
    \E f, s \in ReqIds :
        /\ SameKey(f, s) /\ Cacheable(f) /\ req[f].wrote
        /\ \A g \in ReqIds \ {f, s} : KeyOf(g) # KeyOf(f)
        /\ StartedAfter(s, f) /\ req[s].at > req[f].doneAt + TTL_MS
        /\ req[s].lookedUp /\ ~req[s].expired
        /\ Dispatched(s) /\ req[s].response.deduplicated = None

BothProviders == {"postmark", "instantly"}

\* A provider call of the stats request, or of the status request, failed.
StatsCallFailed(p) == StatsSettled[p] # None /\ ~StatsSettled[p][1].ok

StatusCallFailed(p) == StatusSettled[p] # None /\ ~StatusSettled[p][1].ok

\* C30: in the flat stats aggregate, the grouped stats merge and the status
\* merge both provider calls are issued in the step that starts the wait,
\* before either has settled, and the response is produced in a step that
\* finds both settled: as long as a call is pending no response is sent,
\* whether or not the other call failed.
C30_ResponseAfterBothSettled ==
    [][/\ (stats.pc = "idle" /\ stats'.pc = "providers" /\ stats'.body.type = None) =>
              /\ stats'.calls = BothProviders
              /\ stats'.postmarkResult = None /\ stats'.instantlyResult = None
              /\ stats'.statusCode = 0
       /\ (stats.pc = "providers" /\ stats'.pc = "providers") =>
              stats'.statusCode = 0 /\ stats'.response = EmptyStatsResponse
       /\ (stats.pc = "providers" /\ stats'.pc = "done") =>
              /\ \A p \in stats.calls : StatsSettled[p] # None
              /\ stats'.postmarkResult = stats.postmarkResult
              /\ stats'.instantlyResult = stats.instantlyResult
       /\ (status.pc = "idle" /\ status'.pc = "providers") =>
              /\ status'.calls = BothProviders
              /\ status'.broadcastResult = None /\ status'.transactionalResult = None
              /\ status'.statusCode = 0
       /\ (status.pc = "providers" /\ status'.pc = "providers") =>
              status'.statusCode = 0 /\ status'.response = EmptyStatusResponse
       /\ (status.pc = "providers" /\ status'.pc = "done") =>
              /\ \A p \in status.calls : StatusSettled[p] # None
              /\ status'.broadcastResult = status.broadcastResult
              /\ status'.transactionalResult = status.transactionalResult]_vars

\* In a grouped stats merge and in a status merge the provider that settled
\* first has failed and the other call is pending: neither handler has
\* answered.
C30_Witness ==
    /\ stats.pc = "providers" /\ stats.body.type = None /\ Truthy(stats.body.groupBy)
    /\ stats.calls = BothProviders
    /\ StatsCallFailed("postmark") /\ StatsSettled["instantly"] = None
    /\ stats.statusCode = 0
    /\ status.pc = "providers" /\ status.calls = BothProviders
    /\ StatusCallFailed("instantly") /\ StatusSettled["postmark"] = None
    /\ status.statusCode = 0

\* The order in which the two calls did not settle.
OtherOrder(settled) == << settled[2], settled[1] >>

\* C31: for the outcomes the two provider calls settled with, the flat
\* aggregate, the grouped response (status code and group list, order
\* included) and the status response are what the handler answers had the
\* calls settled in the other order.
C31_MergeIndependentOfSettleOrder ==
    [][/\ (stats.pc = "providers" /\ stats'.pc = "done" /\ stats.calls = BothProviders) =>
              /\ Len(stats.settled) = 2
              /\ stats' = StatsAnswer(stats.settled)
              /\ stats'.statusCode = StatsAnswer(OtherOrder(stats.settled)).statusCode
              /\ stats'.response = StatsAnswer(OtherOrder(stats.settled)).response
       /\ (status.pc = "providers" /\ status'.pc = "done") =>
              /\ Len(status.settled) = 2
              /\ status' = StatusAnswer(status.settled)
              /\ status'.statusCode = StatusAnswer(OtherOrder(status.settled)).statusCode
              /\ status'.response = StatusAnswer(OtherOrder(status.settled)).response]_vars

\* A grouped merge answered after the broadcast call settled first with
\* groups and the transactional call settled second with other groups, and a
\* status request answered after the transactional call settled first and
\* failed while the broadcast call returned results.
C31_Witness ==
    /\ stats.pc = "done" /\ stats.calls = BothProviders /\ Truthy(stats.body.groupBy)
    /\ stats.settled = << "instantly", "postmark" >>
    /\ stats.postmarkResult[1].ok /\ stats.instantlyResult[1].ok
    /\ isGrouped(stats.postmarkResult[1]) /\ isGrouped(stats.instantlyResult[1])
    /\ stats.postmarkResult[1] # stats.instantlyResult[1]
    /\ stats.response.groups # None /\ Len(stats.response.groups[1]) > 1
    /\ status.pc = "done" /\ status.settled = << "postmark", "instantly" >>
    /\ ~status.transactionalResult[1].ok /\ status.broadcastResult[1].ok
    /\ status.statusCode = 200

\* The place of each step in the order lookup, brand lookup, footer
\* composition, dispatch, cache write, response.
StepRank ==
    [lookup |-> 1, brand |-> 2, compose |-> 3, dispatch |-> 4, write |-> 5, respond |-> 6]

\* Each step comes later in the order than the step before it.
InOrder(steps) ==
    \A i \in 1..(Len(steps) - 1) : StepRank[steps[i]] < StepRank[steps[i + 1]]

Took(r, step) == \E i \in 1..Len(req[r].steps) : req[r].steps[i] = step

\* The steps of a send that missed the cache are in order, the cache write
\* comes only after a dispatch that the provider answered, and the response
\* is the last step.
StepsInOrder(r) ==
    MissedCache(r) =>
        /\ InOrder(req[r].steps)
        /\ Took(r, "write") => Took(r, "dispatch") /\ Answered(r)
        /\ Done(r) => req[r].steps[Len(req[r].steps)] = "respond"
        /\ (Cacheable(r) /\ Truthy(KeyOf(r))) => Took(r, "write")
        /\ req[r].brandAsked <=> Took(r, "brand")
        /\ Dispatched(r) <=> Took(r, "dispatch")

\* s, bearing the key of f, started after f had missed the cache and had been
\* answered with a 200 or a 409.
StartsAfterResponse(s, f) ==
    /\ f # s /\ MissedCache(f) /\ Cacheable(f)
    /\ KeyOf(f) # None /\ KeyOf(s) = KeyOf(f)
    /\ StartedAfter(s, f)

\* s found an entry under its key.
FoundEntry(s) == req[s].lookedUp /\ Deduped(s)

\* C32 as stated: the steps of a send that misses the cache are in order, and
\* any request with the same key that starts after the first caller has its
\* response finds the entry.
C32_AsStated ==
    \A f, s \in ReqIds :
        /\ StepsInOrder(f)
        /\ StartsAfterResponse(s, f) => FoundEntry(s)

\* C32 as amended: every send that misses the cache runs its steps in the
\* order idempotency lookup, brand lookup (if any), footer composition,
\* provider dispatch, cache write (answered sends bearing a non-empty key
\* only), response; an entry appears or changes in the cache only in the step
\* in which a send bearing its key that the provider answered completes, and
\* by the end of that step the cache holds that send's outcome; so a request
\* with the same non-empty key that starts after the first caller has its
\* response, and within the time to live, finds a live entry for the key.
\* Each request is examined at every step of its handler.
C32_WriteAfterAnswerBeforeResponse ==
    [][/\ \A k \in DOMAIN store' :
              (k \notin DOMAIN store \/ store'[k] # store[k]) =>
                  \E r \in ReqIds :
                      /\ req[r].pc = "dispatch" /\ req'[r].pc = "done"
                      /\ req'[r].result # None /\ req'[r].result[1].ok
                      /\ req'[r].body.idempotencyKey = Some(k)
       /\ \A r \in ReqIds :
              req'[r] # req[r] =>
                  /\ StepsInOrder(r)'
                  /\ (/\ req'[r].pc = "done" /\ req'[r].result # None
                      /\ req'[r].result[1].ok /\ Truthy(req'[r].body.idempotencyKey)) =>
                         LET k == req'[r].body.idempotencyKey[1]
                         IN  /\ k \in DOMAIN store'
                             /\ store'[k].statusCode = req'[r].statusCode
                             /\ store'[k].response = req'[r].response
                  /\ \A f \in ReqIds :
                         (/\ StartsAfterResponse(r, f) /\ Truthy(KeyOf(f))
                          /\ WithinTtlOf(r, f))' => FoundEntry(r)']_vars

\* A transactional send with a brand lookup took all six steps, and a request
\* bearing its key that started after its response found the entry.
C32_Witness ==
    \E f, s \in ReqIds :
        /\ StartsAfterResponse(s, f) /\ Truthy(KeyOf(f)) /\ WithinTtlOf(s, f)
        /\ req[f].steps = << "lookup", "brand", "compose", "dispatch", "write", "respond" >>
        /\ FoundEntry(s)
        /\ req[s].steps = << "lookup", "respond" >>

\* A stored entry is a provider's decision: a 200 whose result has success =
\* true, or a 409 whose result is a broadcast result with success = false.
RealDecision(entry) ==
    \/ entry.statusCode = 200 /\ entry.response.success = Some(TRUE)
    \/ /\ entry.statusCode = 409 /\ entry.response.success = Some(FALSE)
       /\ entry.response.provider = Some("broadcast")

\* C33: in every reachable state every entry of the idempotency cache holds a
\* real provider decision, a 200 with success = true or a 409 with success =
\* false from the broadcast provider; none holds a 400, a 401 or a 502.
C33_EntriesAreProviderDecisions ==
    \A k \in DOMAIN store :
        /\ RealDecision(store[k])
        /\ store[k].statusCode \notin {400, 401, 502}
        /\ store[k].response.deduplicated = None

\* Of two sends bearing one key that were in flight together, one ended in a
\* 502 and the other was answered with a 409: the cache holds the 409.
C33_Witness ==
    \E f, g \in ReqIds :
        /\ SameKey(f, g) /\ Failed(f) /\ req[f].statusCode = 502
        /\ Cacheable(g) /\ req[g].statusCode = 409
        /\ KeyOf(g)[1] \in DOMAIN store
        /\ store[KeyOf(g)[1]].statusCode = 409
        /\ store[KeyOf(g)[1]].response = req[g].response

\* The step in which the handler of s finds a live entry under its key and
\* answers from it.
HitStep(s) ==
    /\ req[s].pc = "idle" /\ req'[s].pc = "done"
    /\ req'[s].response.deduplicated = Some(TRUE)

\* A request bearing the key of s1 stored its outcome after the hit s1 and
\* before the hit s2.
StoredBetween(s1, s2) ==
    \E w \in ReqIds :
        /\ req[w].wrote /\ KeyOf(w) = KeyOf(s1)
        /\ w \notin req[s1].before /\ w \in req[s2].before

\* Two hits on the same key, the second after the first.
RepeatedHits(s1, s2) ==
    /\ s1 # s2 /\ Deduped(s1) /\ Deduped(s2)
    /\ req[s1].lookedUp /\ req[s2].lookedUp
    /\ KeyOf(s1) = KeyOf(s2)
    /\ StartedAfter(s2, s1)

\* f stored its outcome, and s1 and then s2, bearing its key, were answered
\* from the cache, both within the time to live of what f stored.
HitsAfterStore(f, s1, s2) ==
    /\ req[f].wrote /\ KeyOf(f) = KeyOf(s1) /\ StartedAfter(s1, f)
    /\ RepeatedHits(s1, s2)
    /\ WithinTtlOf(s1, f) /\ WithinTtlOf(s2, f)

\* C34 as stated: repeated hits on the same key return identical responses
\* until 24 hours after the original store.
C34_AsStated ==
    \A f, s1, s2 \in ReqIds :
        HitsAfterStore(f, s1, s2) =>
            /\ req[s1].statusCode = req[s2].statusCode
            /\ req[s1].response = req[s2].response

\* C34 as amended: a cache hit leaves the cache as it was, entry, result and
\* expiry: it answers with the stored status code and the stored result plus
\* the deduplicated flag, at a time not later than the entry's expiry, the
\* stored result itself never carries the flag, and so repeated hits on the
\* same key return identical responses as long as no request bearing the key
\* stores its outcome between them.
C34_HitLeavesCacheUnchanged ==
    [][/\ \A s \in ReqIds :
              HitStep(s) =>
                  LET key == req'[s].body.idempotencyKey[1]
                  IN  /\ store' = store
                      /\ key \in DOMAIN store
                      /\ now <= store[key].expiresAt
                      /\ req'[s].statusCode = store[key].statusCode
                      /\ req'[s].response = Deduplicated(store[key].response)
                      /\ ~req'[s].wrote /\ ~Dispatched(s)'
       /\ \A k \in DOMAIN store' : store'[k].response.deduplicated = None
       /\ \A s1, s2 \in ReqIds :
              (RepeatedHits(s1, s2) /\ ~StoredBetween(s1, s2))' =>
                  /\ req'[s1].statusCode = req'[s2].statusCode
                  /\ req'[s1].response = req'[s2].response]_vars

\* A send was stored, and two later requests bearing its key, one tick apart,
\* were both answered from the entry with the same response; the entry still
\* expires one time to live after the store.
C34_Witness ==
    \E f, s1, s2 \in ReqIds :
        /\ RepeatedHits(s1, s2) /\ ~StoredBetween(s1, s2)
        /\ req[f].wrote /\ KeyOf(f) = KeyOf(s1) /\ f \in req[s1].before
        /\ req[s2].at > req[s1].at
        /\ req[s1].response = req[s2].response
        /\ req[s1].response = Deduplicated(req[f].response)
        /\ KeyOf(f)[1] \in DOMAIN store
        /\ store[KeyOf(f)[1]].expiresAt = req[f].doneAt + TTL_MS
        /\ store[KeyOf(f)[1]].response = req[f].response

\* r waits for the brand directory or for its provider.
SendWaits(r) == req[r].pc \in {"brand", "dispatch"}

\* C35 as stated: every request that waits for a provider call completes,
\* whether or not the provider ever answers.
C35_AsStated ==
    /\ \A r \in ReqIds : SendWaits(r) ~> Done(r)
    /\ (stats.pc = "providers") ~> (stats.pc = "done")
    /\ (status.pc = "providers") ~> (status.pc = "done")

\* How many times the handler of r has answered.
Responses(r) == Cardinality({i \in 1..Len(req[r].steps) : req[r].steps[i] = "respond"})

\* C36: when every provider and brand-directory call settles, every send,
\* stats and status request that has started reaches Done; a request that is
\* Done has answered exactly once, and one that is not has not answered.
C36_EveryRequestAnswersOnce ==
    /\ \A r \in ReqIds : (req[r].pc # "idle") ~> Done(r)
    /\ (stats.pc # "idle") ~> (stats.pc = "done")
    /\ (status.pc # "idle") ~> (status.pc = "done")
    /\ [](/\ \A r \in ReqIds : Responses(r) = IF Done(r) THEN 1 ELSE 0
          /\ stats.responses = IF stats.pc = "done" THEN 1 ELSE 0
          /\ status.responses = IF status.pc = "done" THEN 1 ELSE 0)

\* A send that waited for the brand directory and for its provider, a stats
\* request and a status request that waited for both providers have each
\* answered once.
C36_Witness ==
    \E r \in ReqIds :
        /\ Done(r) /\ req[r].brandAsked /\ req[r].result # None /\ Responses(r) = 1
        /\ stats.pc = "done" /\ stats.calls = BothProviders /\ stats.responses = 1
        /\ status.pc = "done" /\ status.calls = BothProviders /\ status.responses = 1

\* A live entry sits under the key of the body.
LiveEntry(body) ==
    /\ HasIdempotencyKey(body)
    /\ body.idempotencyKey[1] \in DOMAIN store
    /\ now <= store[body.idempotencyKey[1]].expiresAt

\* s arrives in this step with a body that passes the schema.
Arrives(s) ==
    /\ req[s].pc = "idle" /\ req'[s].pc # "idle"
    /\ req'[s].statusCode # 401
    /\ SendParseOk(req'[s].body)

\* s was answered from the entry that w stored, and differs from w in
\* channel, recipient and content.
SharedHit(w, s) ==
    /\ req[w].wrote /\ StartedAfter(s, w) /\ KeyOf(s) = KeyOf(w)
    /\ req[s].lookedUp /\ req[s].response.deduplicated = Some(TRUE)
    /\ req[s].body.type # req[w].body.type
    /\ req[s].body.to # req[w].body.to
    /\ req[s].body.htmlBody # req[w].body.htmlBody
    /\ req[s].body.sequence # req[w].body.sequence

\* C37: the cache is keyed by the idempotency key alone: a send that arrives
\* while a live entry sits under its key is answered in that step with the
\* entry's status code and the entry's result plus deduplicated = true, calls
\* neither the brand directory nor a provider, and leaves the cache as it
\* was, whatever its channel, recipient and content.
C37_KeyAloneSelectsEntry ==
    [][\A s \in ReqIds :
          (Arrives(s) /\ LiveEntry(req'[s].body)) =>
              LET entry == store[req'[s].body.idempotencyKey[1]]
              IN  /\ req'[s].pc = "done"
                  /\ req'[s].statusCode = entry.statusCode
                  /\ req'[s].response = [entry.response EXCEPT !.deduplicated = Some(TRUE)]
                  /\ req'[s].payload = NoPayload /\ req'[s].result = None
                  /\ ~req'[s].brandAsked
                  /\ store' = store]_vars

\* A broadcast send to one recipient was answered from the entry a
\* transactional send to another recipient had stored under the same key.
C37_Witness ==
    \E w, s \in ReqIds :
        /\ SharedHit(w, s)
        /\ req[w].body.type = "transactional" /\ req[s].body.type = "broadcast"
        /\ req[s].statusCode = 200
        /\ req[s].response.provider = Some("transactional")

\* In this step the live 200 under k is replaced by a 409.
SuccessReplaced(k) ==
    /\ k \in DOMAIN store /\ store[k].statusCode = 200 /\ now <= store[k].expiresAt
    /\ k \in DOMAIN store' /\ store'[k].statusCode = 409

\* f was delivered and its 200 was stored.
Delivered(f) == req[f].wrote /\ req[f].statusCode = 200

\* g was dispatched before f was answered, and stores its 409 in this step.
LateAnswerStores(g, f) ==
    /\ req[g].pc = "dispatch" /\ req'[g].pc = "done"
    /\ req'[g].wrote /\ req'[g].statusCode = 409
    /\ KeyOf(g) = KeyOf(f)
    /\ f \notin req[g].before

\* s, a duplicate of the delivered send f that started after f was answered
\* and within the time to live of its entry, was answered success = false
\* from the cache.
SeesFailure(s, f) ==
    /\ Delivered(f) /\ SameKey(s, f) /\ StartedAfter(s, f) /\ WithinTtlOf(s, f)
    /\ Deduped(s) /\ req[s].response.success = Some(FALSE)

\* C38 as stated: a live 200 is never replaced by a 409, and no late
\* duplicate caller of a delivered send observes success = false.
C38_AsStated ==
    /\ [][\A k \in DOMAIN store : ~SuccessReplaced(k)]_vars
    /\ [](\A f, s \in ReqIds : ~SeesFailure(s, f))

\* C38 as amended: a live 200 under a key is replaced by a 409 only by a
\* request bearing the key that was dispatched before the delivered send was
\* answered, when its own provider call reports the lead as not added; a
\* request that starts after the 200 was cached never replaces it within its
\* time to live, and a late duplicate caller observes success = false only
\* after such a replacement.
C38_SuccessReplacedOnlyByOverlap ==
    /\ [][\A k \in DOMAIN store :
            SuccessReplaced(k) =>
                \E f, g \in ReqIds :
                    /\ Delivered(f) /\ KeyOf(f) = Some(k)
                    /\ req[f].doneAt + TTL_MS = store[k].expiresAt
                    /\ LateAnswerStores(g, f)]_vars
    /\ [](\A f, s \in ReqIds :
            SeesFailure(s, f) =>
                \E g \in ReqIds :
                    /\ req[g].wrote /\ req[g].statusCode = 409 /\ SameKey(g, f)
                    /\ f \notin req[g].before
                    /\ StartedAfter(s, g)
                    /\ req[s].response = Deduplicated(req[g].response))

\* Two sends bearing the key were dispatched together; the first was
\* delivered and cached with 200, the second was answered "not added" and
\* replaced the entry, and a duplicate that came later was answered 409 with
\* success = false.
C38_Witness ==
    \E f, g, s \in ReqIds :
        /\ SeesFailure(s, f)
        /\ req[g].wrote /\ req[g].statusCode = 409
        /\ Overlapped(f, g) /\ StartedAfter(s, g)
        /\ req[s].statusCode = 409

\* What a provider call of a stats or status request settled with; a call
\* that was not made has no part in the answer.
OwnReply(result, notCalled) == IF result = None THEN notCalled ELSE result[1]

\* The answer of POST /stats to a body and to the replies of its own calls.
StatsAnswerTo(body, postmarkResult, instantlyResult) ==
    IF ~StatsParseOk(body)
    THEN [statusCode |-> 400, response |-> StatsInvalidRequest]
    ELSE StatsOutcome(StatsParseData(body),
                      OwnReply(postmarkResult, StatsFailure("not called")),
                      OwnReply(instantlyResult, StatsFailure("not called")))

\* The answer of POST /status to a body and to the replies of its own calls.
StatusAnswerTo(body, broadcastResult, transactionalResult) ==
    IF ~StatusParseOk(body)
    THEN [statusCode |-> 400, response |-> StatusInvalidRequest]
    ELSE StatusOutcome(StatusParseData(body),
                       OwnReply(broadcastResult, StatusFailure),
                       OwnReply(transactionalResult, StatusFailure))

\* C39: a step of a stats or of a status request leaves the idempotency
\* cache, every send and the other of the two as they were, a step of a send
\* leaves the stats and the status request as they were, and the answer of a
\* stats or status request is a function of its own body and of what its own
\* provider calls settled with, whatever the cache holds and whatever sends
\* ran before it or run beside it.
C39_QueriesShareNothing ==
    /\ [][/\ stats' # stats => UNCHANGED << store, unswept, req, status >>
          /\ status' # status => UNCHANGED << store, unswept, req, stats >>
          /\ req' # req => UNCHANGED << stats, status >>]_vars
    /\ [](/\ stats.pc = "done" =>
                [statusCode |-> stats.statusCode, response |-> stats.response]
                    = StatsAnswerTo(stats.body, stats.postmarkResult, stats.instantlyResult)
          /\ status.pc = "done" =>
                [statusCode |-> status.statusCode, response |-> status.response]
                    = StatusAnswerTo(status.body, status.broadcastResult,
                               status.transactionalResult))

\* A stats and a status request whose bodies bear the key of a cached send
\* were answered from their providers' replies.
C39_Witness ==
    /\ "k1" \in DOMAIN store
    /\ stats.pc = "done" /\ stats.body.idempotencyKey = Some("k1")
    /\ stats.calls = BothProviders /\ stats.statusCode = 200
    /\ status.pc = "done" /\ status.body.idempotencyKey = Some("k1")
    /\ status.calls = BothProviders /\ status.statusCode = 200
    /\ \E r \in ReqIds : req[r].pc = "dispatch"
====
